---- MODULE Spec2Model ----
(***************************************************************************)
(* Task orchestration and tool execution engine of manus_ai_agent:         *)
(* ShellExecutor (command policy and runner), FileManager (working         *)
(* directory guard and file actions) and AgentOrchestrator (plan parsing,  *)
(* step loop, history).                                                    *)
(*                                                                         *)
(* Python strings are modelled as sequences of one-character strings, so   *)
(* that `in`, startswith, split, strip and os.path.normpath are computed   *)
(* character by character as the interpreter computes them.                *)
(***************************************************************************)
EXTENDS Naturals, Integers, Sequences, FiniteSets, TLC

VARIABLES
    \* ---- ShellExecutor (src/agents/tools.py:138-333)
    sh_ctor,            \* arguments and environment ShellExecutor was constructed with
    allowed_commands,   \* self.allowed_commands
    blocked_commands,   \* self.blocked_commands
    enable_sandbox,     \* self.enable_sandbox
    docker_client,      \* TRUE iff self.docker_client was assigned
    sh_command,         \* argument of the last run_command call
    sh_outcome,         \* value returned by the last run_command call
    sh_raised,          \* exception that escaped the last run_command call
    sh_started,         \* backends launched by the last run_command call
    sh_child,           \* what the launched child / container did
    script_left,        \* temporary scripts left on disk by the last call
    chk_command,        \* argument of the last is_command_allowed call
    chk_allowed,        \* value returned by the last is_command_allowed call
    settings_sandbox,   \* settings.enable_sandbox of the orchestrator's settings
    \* ---- FileManager (src/agents/tools.py:336-500)
    working_dir,        \* self.working_dir
    fs_files,           \* the filesystem: normalized path -> file content
    fs_dirs,            \* the filesystem: set of normalized directory paths
    fm_request,         \* arguments of the last manage_file call, and whether
                        \* the operating system refused its reading operation
    fm_result,          \* value returned by the last manage_file call
    fm_raised,          \* exception that escaped the last manage_file call
    fm_ops,             \* filesystem calls made by the last manage_file call
    \* ---- AgentOrchestrator (src/agents/orchestrator.py:75-450)
    pc,                 \* position of the run_task coroutine
    task,               \* run_task argument
    yolo_mode,          \* run_task argument
    current_plan,       \* self.current_plan (the plan list, mutated in place)
    execution_results,  \* self.execution_results: ordinal -> StepResult
    task_history,       \* self.task_history
    results,            \* local `results` of execute_plan
    step_i,             \* loop index i of execute_plan (0-based)
    requests,           \* completion requests of the current run and their answers
    dispatched,         \* tool dispatches made during the current run
    in_flight,          \* run_task coroutines begun and not yet ended
    \* ---- ManusAgentGUI (src/gui/app.py:79-650)
    task_thread,        \* self.task_thread: "none", "running" or "finished"
    \* ---- AgentOrchestrator._parse_plan called on its own
    pp_pc,              \* "new", "parsed", then "reparsed" or "edited"
    pp_text,            \* argument plan_text of the last _parse_plan call
    pp_steps,           \* list returned by the last _parse_plan call
    pp_first,           \* list returned by the call before the last
    \* ---- AgentOrchestrator._simulate_tool_execution called on its own
    ex_pc,              \* "new" or "done"
    ex_text,            \* argument execution_text
    ex_yolo,            \* argument yolo_mode
    ex_results          \* list returned by the call

shellVars == <<sh_ctor, allowed_commands, blocked_commands, enable_sandbox, docker_client,
               sh_command, sh_outcome, sh_raised, sh_started, sh_child, script_left,
               chk_command, chk_allowed, settings_sandbox>>
fileVars  == <<working_dir, fs_files, fs_dirs, fm_request, fm_result, fm_raised, fm_ops>>
orchVars  == <<pc, task, yolo_mode, current_plan, execution_results, task_history,
               results, step_i, requests, dispatched, in_flight, task_thread>>
parseVars == <<pp_pc, pp_text, pp_steps, pp_first>>
extractVars == <<ex_pc, ex_text, ex_yolo, ex_results>>
vars      == <<shellVars, fileVars, orchVars, parseVars, extractVars>>

-----------------------------------------------------------------------------
(* Python str primitives on character sequences                             *)

\* str.startswith(prefix)
StartsWith(s, prefix) ==
    /\ Len(prefix) <= Len(s)
    /\ SubSeq(s, 1, Len(prefix)) = prefix

\* `sub in s` for strings: sub occurs as a contiguous substring of s
Contains(s, sub) ==
    \E i \in 1..(Len(s) + 1) :
        /\ i + Len(sub) - 1 <= Len(s)
        /\ SubSeq(s, i, i + Len(sub) - 1) = sub

\* `x in list`
InList(x, list) == \E i \in 1..Len(list) : list[i] = x

\* characters str.split() and str.strip() treat as whitespace
Whitespace == {" ", "\t", "\n"}

\* str.split(sep) for a one-character separator: empty fields are kept
RECURSIVE SplitAcc(_, _, _, _)
SplitAcc(s, sep, cur, acc) ==
    IF s = <<>> THEN Append(acc, cur)
    ELSE IF Head(s) = sep THEN SplitAcc(Tail(s), sep, <<>>, Append(acc, cur))
    ELSE SplitAcc(Tail(s), sep, Append(cur, Head(s)), acc)

Split(s, sep) == SplitAcc(s, sep, <<>>, <<>>)

\* str.split() without separator: runs of whitespace separate, no empty fields
RECURSIVE SplitWsAcc(_, _, _)
SplitWsAcc(s, cur, acc) ==
    IF s = <<>> THEN (IF cur = <<>> THEN acc ELSE Append(acc, cur))
    ELSE IF Head(s) \in Whitespace
         THEN SplitWsAcc(Tail(s), <<>>, IF cur = <<>> THEN acc ELSE Append(acc, cur))
    ELSE SplitWsAcc(Tail(s), Append(cur, Head(s)), acc)

SplitWs(s) == SplitWsAcc(s, <<>>, <<>>)

\* str.strip(): leading and trailing whitespace removed
RECURSIVE LStrip(_)
LStrip(s) == IF s # <<>> /\ Head(s) \in Whitespace THEN LStrip(Tail(s)) ELSE s

RECURSIVE RStrip(_)
RStrip(s) ==
    IF s # <<>> /\ s[Len(s)] \in Whitespace THEN RStrip(SubSeq(s, 1, Len(s) - 1)) ELSE s

Strip(s) == RStrip(LStrip(s))

\* sep.join(parts)
RECURSIVE Join(_, _)
Join(parts, sep) ==
    IF parts = <<>> THEN <<>>
    ELSE IF Len(parts) = 1 THEN parts[1]
    ELSE parts[1] \o sep \o Join(Tail(parts), sep)

-----------------------------------------------------------------------------
(* ShellExecutor: command policy                                            *)

\* default allow list of ShellExecutor.__init__
DefaultAllowed ==
    << <<"l","s">>, <<"c","a","t">>, <<"p","w","d">>, <<"e","c","h","o">>,
       <<"g","r","e","p">>, <<"f","i","n","d">> >>

\* default block list of ShellExecutor.__init__
DefaultBlocked ==
    << <<"r","m">>, <<"m","k","f","s">>, <<"d","d">>, <<">">>,
       <<"f","o","r","m","a","t">> >>

\* allowed_commands arguments tried; <<>> stands for None and for []
AllowedArgs ==
    { <<>>,
      DefaultAllowed \o << <<"r","m">> >>,
      << <<"s","c","p">>, <<"l","s">> >> }

\* blocked_commands arguments tried; <<>> stands for None and for []
BlockedArgs ==
    { <<>>,
      << <<"h","o">> >> }

\* commands tried
Commands ==
    { <<"l","s"," ","-","l","a">>,
      <<"r","m"," ","-","r","f"," ","/","t","m","p">>,
      <<"s","c","p"," ","f","i","l","e"," ","h","o","s","t",":">>,
      <<>>,
      <<" ","\t">>,
      <<" ","l","s","\t","-","l">>,
      <<"l","s","x">>,
      <<"c","a","t"," ","a","d","d","r">>,
      <<"e","c","h","o"," ","h","i"," ",">"," ","f">>,
      <<"e","c","h","o"," ","h","i">>,
      <<"p","w","d">> }

\* `x or default` for list arguments: None and [] are falsy
OrDefault(arg, default) == IF arg = <<>> THEN default ELSE arg

\* command.strip().split()
command_parts(command) == SplitWs(Strip(command))

\* Variant: the block list is matched against the base command only.
PolicyAccepts_BlockByToken(command, command_parts_) ==
    IF command_parts_ = <<>> THEN FALSE
    ELSE IF \E i \in 1..Len(blocked_commands) : blocked_commands[i] = command_parts_[1]
         THEN FALSE
    ELSE IF allowed_commands # <<>> /\ ~InList(command_parts_[1], allowed_commands)
         THEN FALSE
    ELSE TRUE

\* Variant: the allow list accepts a base command that starts with an entry.
PolicyAccepts_AllowByPrefix(command, command_parts_) ==
    IF command_parts_ = <<>> THEN FALSE
    ELSE IF \E i \in 1..Len(blocked_commands) : Contains(command, blocked_commands[i])
         THEN FALSE
    ELSE IF /\ allowed_commands # <<>>
            /\ ~\E i \in 1..Len(allowed_commands) :
                    StartsWith(command_parts_[1], allowed_commands[i])
         THEN FALSE
    ELSE TRUE

\* the tests of is_command_allowed on the command and its tokens, in the
\* order of the code: no token, a blocked pattern, the allow list
PolicyAccepts(command, command_parts_) ==
    IF command_parts_ = <<>> THEN FALSE
    ELSE IF \E i \in 1..Len(blocked_commands) : Contains(command, blocked_commands[i])
         THEN FALSE
    ELSE IF allowed_commands # <<>> /\ ~InList(command_parts_[1], allowed_commands)
         THEN FALSE
    ELSE TRUE

\* ShellExecutor.is_command_allowed
is_command_allowed(command) == PolicyAccepts(command, command_parts(command))

-----------------------------------------------------------------------------
(* ShellExecutor: runner                                                    *)

\* timeout=60 of subprocess.run
LocalTimeout == 60

\* what subprocess.run meets: an exception other than the timeout (fault),
\* or a child that runs for `duration` seconds and exits with `returncode`
LocalChildren ==
    { [fault |-> "OSError", duration |-> 1, returncode |-> 0],
      [fault |-> "none", duration |-> LocalTimeout + 1, returncode |-> 0],
      [fault |-> "none", duration |-> 1, returncode |-> 0],
      [fault |-> "none", duration |-> 1, returncode |-> 1] }

\* where the sandboxed run faults, and whether os.unlink of the script works
SandboxChildren ==
    { [fault |-> "create", unlink_ok |-> TRUE],
      [fault |-> "write", unlink_ok |-> TRUE] }
      \cup [fault : {"none", "chmod", "run", "decode"}, unlink_ok : BOOLEAN]

\* no backend was launched
NoChild == [fault |-> "not started"]

NotAllowedMsg == "This command is not allowed for security reasons."
TimedOutMsg   == "Command execution timed out after 60 seconds"
DockerErrMsg  == "Error in Docker execution: <str(e)>"
DecodeErrMsg  == "Failed to decode container output"
StrOfExc      == "<str(e)>"

\* a call's effect: the value returned or the exception raised, the backends
\* launched, the scripts left behind, the child behaviour met
Returned(value, started, left, child) ==
    [raised |-> "none", value |-> value, started |-> started,
     script_left |-> left, child |-> child]

Raised(exc, started, left, child) ==
    [raised |-> exc, value |-> [success |-> FALSE], started |-> started,
     script_left |-> left, child |-> child]

\* ShellExecutor._run_local
_run_local(command, child) ==
    IF child.fault # "none"
    THEN Raised(child.fault, <<"local">>, 0, child)
    ELSE IF child.duration > LocalTimeout
    THEN Returned([success |-> FALSE, command |-> command, error |-> TimedOutMsg],
                  <<"local">>, 0, child)
    ELSE Returned([success |-> child.returncode = 0, command |-> command,
                   stdout |-> "<stdout>", stderr |-> "<stderr>",
                   returncode |-> child.returncode],
                  <<"local">>, 0, child)

\* the value of the `except Exception` clause of _run_sandboxed
DockerError(command) == [success |-> FALSE, command |-> command, error |-> DockerErrMsg]

\* the finally clause of _run_sandboxed once script_path is assigned
AfterUnlink(child) == IF child.unlink_ok THEN 0 ELSE 1

\* ShellExecutor._run_sandboxed
_run_sandboxed(command, child) ==
    CASE child.fault = "create" -> Returned(DockerError(command), <<>>, 0, child)
      [] child.fault = "write"  -> Returned(DockerError(command), <<>>, 1, child)
      [] child.fault = "chmod"  ->
            Returned(DockerError(command), <<>>, AfterUnlink(child), child)
      [] child.fault = "run"    ->
            Returned(DockerError(command), <<"sandbox">>, AfterUnlink(child), child)
      [] child.fault = "decode" ->
            Returned([success |-> FALSE, command |-> command, error |-> DecodeErrMsg],
                     <<"sandbox">>, AfterUnlink(child), child)
      [] OTHER ->
            Returned([success |-> TRUE, command |-> command, stdout |-> "<stdout>",
                      stderr |-> "", returncode |-> 0],
                     <<"sandbox">>, AfterUnlink(child), child)

\* the except clause of run_command
CatchAll(call, command) ==
    IF call.raised = "none" THEN call
    ELSE Returned([success |-> FALSE, command |-> command, error |-> StrOfExc],
                  call.started, call.script_left, call.child)

\* Variant: the command is run without asking the policy.
run_command_Unchecked(command, child) ==
    CatchAll(IF enable_sandbox THEN _run_sandboxed(command, child)
             ELSE _run_local(command, child), command)

\* Variant: no except clause around the backends.
run_command_Uncaught(command, child) ==
    IF ~is_command_allowed(command)
    THEN Returned([success |-> FALSE, command |-> command, error |-> NotAllowedMsg],
                  <<>>, 0, NoChild)
    ELSE IF enable_sandbox THEN _run_sandboxed(command, child)
    ELSE _run_local(command, child)

\* ShellExecutor.run_command
run_command(command, child) ==
    CatchAll(
        IF ~is_command_allowed(command)
        THEN Returned([success |-> FALSE, command |-> command, error |-> NotAllowedMsg],
                      <<>>, 0, NoChild)
        ELSE IF enable_sandbox THEN _run_sandboxed(command, child)
        ELSE _run_local(command, child),
        command)

\* ShellExecutor.__init__ as the initial state of the runner
ShellCtorArgs ==
    [allowed : AllowedArgs, blocked : BlockedArgs, enable_sandbox : BOOLEAN,
     docker_available : BOOLEAN, from_env_ok : BOOLEAN]

\* whether __init__ assigns self.docker_client: docker.from_env() is called
\* and returns
ClientCreated(c) == c.enable_sandbox /\ c.docker_available /\ c.from_env_ok

\* Variant: the flag stays set when docker.from_env() raises.
SandboxSelected_KeptOnError(c) == c.enable_sandbox /\ c.docker_available

\* self.enable_sandbox at the end of __init__
SandboxSelected(c) ==
    IF c.enable_sandbox /\ c.docker_available
    THEN (IF c.from_env_ok THEN TRUE ELSE FALSE)
    ELSE FALSE

ShellInit ==
    \E c \in ShellCtorArgs :
        /\ sh_ctor = c
        /\ allowed_commands = OrDefault(c.allowed, DefaultAllowed)
        /\ blocked_commands = OrDefault(c.blocked, DefaultBlocked)
        /\ enable_sandbox = SandboxSelected(c)
        /\ docker_client = ClientCreated(c)
        /\ settings_sandbox = c.enable_sandbox
        /\ sh_command = <<>>
        /\ sh_outcome = [success |-> FALSE]
        /\ sh_raised = "none"
        /\ sh_started = <<>>
        /\ sh_child = NoChild
        /\ script_left = 0
        /\ chk_command = <<>>
        /\ chk_allowed = FALSE

\* the state after a call of run_command
ShellAfter(command, call) ==
    /\ sh_command' = command
    /\ sh_outcome' = call.value
    /\ sh_raised' = call.raised
    /\ sh_started' = call.started
    /\ sh_child' = call.child
    /\ script_left' = call.script_left
    /\ UNCHANGED <<sh_ctor, allowed_commands, blocked_commands, enable_sandbox,
                   docker_client, chk_command, chk_allowed, settings_sandbox>>
    /\ UNCHANGED <<fileVars, orchVars, parseVars, extractVars>>

\* one call of run_command by the tool dispatcher
RunCommand(command, child) == ShellAfter(command, run_command(command, child))

\* the behaviours the backend in use can show
Children == IF enable_sandbox THEN SandboxChildren ELSE LocalChildren

\* one call of is_command_allowed on its own
IsCommandAllowed(command) ==
    /\ chk_command' = command
    /\ chk_allowed' = is_command_allowed(command)
    /\ UNCHANGED <<sh_ctor, allowed_commands, blocked_commands, enable_sandbox,
                   docker_client, sh_command, sh_outcome, sh_raised, sh_started,
                   sh_child, script_left, settings_sandbox>>
    /\ UNCHANGED <<fileVars, orchVars, parseVars, extractVars>>

\* ManusAgentGUI.save_settings: the sandbox checkbox is stored in the settings
\* object; the runner already constructed is not touched
SaveSettings(enable) ==
    /\ settings_sandbox' = enable
    /\ UNCHANGED <<sh_ctor, allowed_commands, blocked_commands, enable_sandbox,
                   docker_client, sh_command, sh_outcome, sh_raised, sh_started,
                   sh_child, script_left, chk_command, chk_allowed>>
    /\ UNCHANGED <<fileVars, orchVars, parseVars, extractVars>>

ShellNext ==
    \/ \E command \in Commands, child \in Children : RunCommand(command, child)
    \/ \E command \in Commands : IsCommandAllowed(command)
    \/ \E enable \in BOOLEAN : SaveSettings(enable)

-----------------------------------------------------------------------------
(* os.path on POSIX                                                         *)

Slash == <<"/">>

\* os.path.join(a, p)
path_join(a, p) ==
    IF StartsWith(p, Slash) THEN p
    ELSE IF a = <<>> \/ a[Len(a)] = "/" THEN a \o p
    ELSE a \o Slash \o p

\* the component loop of os.path.normpath
RECURSIVE NormComps(_, _, _)
NormComps(comps, absolute, acc) ==
    IF comps = <<>> THEN acc
    ELSE LET comp == Head(comps) IN
         IF comp = <<>> \/ comp = <<".">> THEN NormComps(Tail(comps), absolute, acc)
         ELSE IF \/ comp # <<".", ".">>
                 \/ (~absolute /\ acc = <<>>)
                 \/ (acc # <<>> /\ acc[Len(acc)] = <<".", ".">>)
              THEN NormComps(Tail(comps), absolute, Append(acc, comp))
         ELSE IF acc # <<>>
              THEN NormComps(Tail(comps), absolute, SubSeq(acc, 1, Len(acc) - 1))
         ELSE NormComps(Tail(comps), absolute, acc)

\* os.path.normpath(path)
normpath(path) ==
    IF path = <<>> THEN <<".">>
    ELSE LET slashes == IF ~StartsWith(path, Slash) THEN <<>>
                        ELSE IF StartsWith(path, <<"/", "/">>)
                                /\ ~StartsWith(path, <<"/", "/", "/">>)
                             THEN <<"/", "/">>
                        ELSE Slash
             body == Join(NormComps(Split(path, "/"), slashes # <<>>, <<>>), Slash)
             out == slashes \o body
         IN IF out = <<>> THEN <<".">> ELSE out

\* index of the last "/" of p, 0 when there is none
RECURSIVE LastSlash(_, _)
LastSlash(p, i) == IF i = 0 THEN 0 ELSE IF p[i] = "/" THEN i ELSE LastSlash(p, i - 1)

RECURSIVE RStripSlash(_)
RStripSlash(s) ==
    IF s # <<>> /\ s[Len(s)] = "/" THEN RStripSlash(SubSeq(s, 1, Len(s) - 1)) ELSE s

\* os.path.dirname(p)
dirname(p) ==
    LET head == SubSeq(p, 1, LastSlash(p, Len(p))) IN
    IF head # <<>> /\ \E i \in 1..Len(head) : head[i] # "/" THEN RStripSlash(head)
    ELSE head

-----------------------------------------------------------------------------
(* The filesystem under the file manager (no symbolic links)                *)

\* the file the kernel reaches for an absolute path string ("//x" is "/x").
\* Every ".." of the paths tried follows a directory that exists, where the
\* kernel's walk and the lexical normalization agree.
Canonical(normalized) ==
    IF StartsWith(normalized, <<"/", "/">>) THEN Tail(normalized) ELSE normalized

KernelPath(p) == Canonical(normpath(p))

\* parent directory and last component of a canonical path
ParentOf(q) == dirname(q)

BaseName(q) == SubSeq(q, LastSlash(q, Len(q)) + 1, Len(q))

\* a canonical path and its ancestors
Chain(q) ==
    { SubSeq(q, 1, i) : i \in { j \in 1..Len(q) : j = Len(q) \/ q[j + 1] = "/" } }

\* names of the direct entries of the directory at canonical path q
\* (os.listdir; the order is the filesystem's, so the listing is a set)
FsListdir(files, dirs, q) ==
    { BaseName(e) : e \in { e \in ((DOMAIN files) \cup dirs) :
                               e # Slash /\ ParentOf(e) = q } }

-----------------------------------------------------------------------------
(* FileManager                                                              *)

\* working directories tried
Roots ==
    { <<"/","w">>, <<"/","w","/","d">>, <<"/","e">> }

\* the path the spec's containment test names: "../../etc/passwd"
EtcPasswdPath ==
    <<".",".","/",".",".","/","e","t","c","/","p","a","s","s","w","d">>

\* path arguments tried
Paths ==
    { <<"f">>,
      <<"d","/","g">>,
      <<>>,
      <<".",".","/","w","x","/","f">>,
      EtcPasswdPath,
      <<"/","e","t","c","/","p","a","s","s","w","d">> }

\* action names tried: the five of manage_file and two it does not know
Actions == {"read", "write", "append", "delete", "list", "move", "Read"}

\* the content argument: None, or a string
NoContent == [none |-> TRUE, text |-> <<>>]

Text(chars) == [none |-> FALSE, text |-> chars]

\* content arguments tried
ContentArgs == { NoContent, Text(<<"a">>) }

\* `content or ""`
OrEmpty(content) ==
    IF content.none \/ content.text = <<>> THEN <<>> ELSE content.text

\* os.linesep of the platform the paths of the model belong to
LineSep == <<"\n">>

\* f.write(text) on a file opened in text mode without newline argument:
\* every "\n" is written as os.linesep
RECURSIVE WrittenAs(_)
WrittenAs(text) ==
    IF text = <<>> THEN <<>>
    ELSE IF Head(text) = "\n" THEN LineSep \o WrittenAs(Tail(text))
    ELSE <<Head(text)>> \o WrittenAs(Tail(text))

\* f.read() on a file opened in text mode without newline argument: "\r\n"
\* and "\r" are read as "\n"
RECURSIVE ReadAs(_)
ReadAs(chars) ==
    IF chars = <<>> THEN <<>>
    ELSE IF Head(chars) = "\r"
         THEN <<"\n">> \o ReadAs(IF Len(chars) > 1 /\ chars[2] = "\n"
                                  THEN Tail(Tail(chars)) ELSE Tail(chars))
    ELSE <<Head(chars)>> \o ReadAs(Tail(chars))

\* longest file content the model lets append build
MaxContent == 2

EscapeMsg == "Path is outside the working directory"

FmReturned(value, ops, files, dirs) ==
    [raised |-> "none", value |-> value, ops |-> ops, files |-> files, dirs |-> dirs]

FmRaised(exc, ops, files, dirs) ==
    [raised |-> exc, value |-> [success |-> FALSE], ops |-> ops,
     files |-> files, dirs |-> dirs]

\* open(full_path, mode) and f.write(content or "") once the directories
\* of dirs1 exist
OpenAndWrite(action, path, content, full_path, target, mk, dirs1) ==
    IF target \in dirs1
    THEN FmRaised("IsADirectoryError",
                  mk \cup {<<IF action = "write" THEN "open_w" ELSE "open_a", full_path>>},
                  fs_files, dirs1)
    ELSE FmReturned([success |-> TRUE, path |-> path, action |-> action],
                    mk \cup {<<IF action = "write" THEN "open_w" ELSE "open_a", full_path>>},
                    (target :> ((IF action = "append" /\ target \in DOMAIN fs_files
                                 THEN fs_files[target] ELSE <<>>)
                                \o WrittenAs(OrEmpty(content))))
                        @@ fs_files,
                    dirs1)

\* os.makedirs(d, exist_ok=True) for d = os.path.dirname(full_path), then
\* the write
MakedirsAndWrite(action, path, content, full_path, target, d, chain) ==
    IF d = <<>> THEN FmRaised("FileNotFoundError", {<<"makedirs", d>>}, fs_files, fs_dirs)
    ELSE IF \E c \in chain : c \in DOMAIN fs_files
         THEN FmRaised("FileExistsError", {<<"makedirs", d>>}, fs_files, fs_dirs)
    ELSE OpenAndWrite(action, path, content, full_path, target,
                      {<<"makedirs", d>>}, fs_dirs \cup chain)

\* the write and append branches of manage_file
WriteFile(action, path, content, full_path, target) ==
    MakedirsAndWrite(action, path, content, full_path, target,
                     dirname(full_path), Chain(KernelPath(dirname(full_path))))

\* a branch of manage_file that leaves the filesystem as it is
FmSame(value, ops) == FmReturned(value, ops, fs_files, fs_dirs)

\* the directory listing of the list branch: per entry its name, whether it
\* is a directory and its size (st_size: the bytes of a file; a directory's
\* is the filesystem's own and is left at 0)
ListEntries(full_path, target, names) ==
    { [name |-> n,
       is_directory |-> (target \o (IF target = Slash THEN <<>> ELSE Slash) \o n) \in fs_dirs,
       size |-> IF (target \o (IF target = Slash THEN <<>> ELSE Slash) \o n)
                      \in DOMAIN fs_files
                THEN Len(fs_files[target \o (IF target = Slash THEN <<>> ELSE Slash) \o n])
                ELSE 0] : n \in names }

\* Variant: a directory is removed like a file.
DeleteFile_Directories(path, full_path, target, exists, isdir) ==
    IF ~exists
    THEN FmSame([success |-> FALSE, path |-> path, error |-> "File does not exist"],
                {<<"exists", full_path>>})
    ELSE FmReturned([success |-> TRUE, path |-> path, action |-> "delete"],
                    {<<"exists", full_path>>, <<"unlink", full_path>>},
                    [q \in { f \in DOMAIN fs_files : ~StartsWith(f, target) }
                        |-> fs_files[q]],
                    { d \in fs_dirs : ~StartsWith(d, target) })

\* the delete branch of manage_file
DeleteFile(path, full_path, target, exists, isdir) ==
    IF ~exists
    THEN FmSame([success |-> FALSE, path |-> path, error |-> "File does not exist"],
                {<<"exists", full_path>>})
    ELSE IF isdir
    THEN FmSame([success |-> FALSE, path |-> path,
                 error |-> "Cannot delete directories"],
                {<<"exists", full_path>>, <<"isdir", full_path>>})
    ELSE FmReturned([success |-> TRUE, path |-> path, action |-> "delete"],
                    {<<"exists", full_path>>, <<"isdir", full_path>>,
                     <<"unlink", full_path>>},
                    [q \in (DOMAIN fs_files) \ {target} |-> fs_files[q]], fs_dirs)

\* Variant: an action that is not known is served as a write of nothing.
UnknownAction_AsWrite(action, path, full_path, exists) ==
    FmReturned([success |-> TRUE, path |-> path, action |-> action],
               {<<"open_w", full_path>>},
               IF exists THEN fs_files
               ELSE (Canonical(normpath(full_path)) :> <<>>) @@ fs_files,
               fs_dirs)

\* the else branch of manage_file
UnknownAction(action, path, full_path, exists) ==
    FmSame([success |-> FALSE, path |-> path,
            error |-> "Unknown action: " \o action], {})

\* the body of the try block of manage_file after the containment test;
\* target is the file full_path leads to, exists and isdir are
\* os.path.exists(full_path) and os.path.isdir(full_path), fault tells
\* whether open(full_path, "r") or os.listdir(full_path) raises OSError
FileAction(action, path, content, full_path, target, exists, isdir, fault) ==
    CASE action = "read" ->
            IF ~exists
            THEN FmSame([success |-> FALSE, path |-> path, error |-> "File does not exist"],
                        {<<"exists", full_path>>})
            ELSE IF isdir
            THEN IF fault
                 THEN FmRaised("OSError",
                               {<<"exists", full_path>>, <<"isdir", full_path>>,
                                <<"listdir", full_path>>}, fs_files, fs_dirs)
                 ELSE FmSame([success |-> TRUE, path |-> path, is_directory |-> TRUE,
                              contents |-> FsListdir(fs_files, fs_dirs, target)],
                             {<<"exists", full_path>>, <<"isdir", full_path>>,
                              <<"listdir", full_path>>})
            ELSE IF fault
            THEN FmRaised("OSError",
                          {<<"exists", full_path>>, <<"isdir", full_path>>,
                           <<"open_r", full_path>>}, fs_files, fs_dirs)
            ELSE FmSame([success |-> TRUE, path |-> path, is_directory |-> FALSE,
                         content |-> ReadAs(fs_files[target])],
                        {<<"exists", full_path>>, <<"isdir", full_path>>,
                         <<"open_r", full_path>>})
      [] action \in {"write", "append"} ->
            WriteFile(action, path, content, full_path, target)
      [] action = "delete" -> DeleteFile(path, full_path, target, exists, isdir)
      [] action = "list" ->
            IF ~exists
            THEN FmSame([success |-> FALSE, path |-> path, error |-> "Path does not exist"],
                        {<<"exists", full_path>>})
            ELSE IF ~isdir
            THEN FmSame([success |-> FALSE, path |-> path,
                         error |-> "Path is not a directory"],
                        {<<"exists", full_path>>, <<"isdir", full_path>>})
            ELSE IF fault
            THEN FmRaised("OSError",
                          {<<"exists", full_path>>, <<"isdir", full_path>>,
                           <<"listdir", full_path>>}, fs_files, fs_dirs)
            ELSE FmSame([success |-> TRUE, path |-> path,
                         contents |-> ListEntries(full_path, target,
                                                  FsListdir(fs_files, fs_dirs, target))],
                        {<<"exists", full_path>>, <<"isdir", full_path>>,
                         <<"listdir", full_path>>}
                          \cup { <<"stat", path_join(full_path, n)>> :
                                    n \in FsListdir(fs_files, fs_dirs, target) })
      [] OTHER -> UnknownAction(action, path, full_path, exists)

\* FileAction for the file the kernel reaches through full_path
FileActionAt(action, path, content, full_path, target, fault) ==
    FileAction(action, path, content, full_path, target,
               target \in (DOMAIN fs_files) \cup fs_dirs, target \in fs_dirs, fault)

\* Variant: no except clause.
FmCatchAll_None(call, action, path) == call

\* the except clause of manage_file
FmCatchAll(call, action, path) ==
    IF call.raised = "none" THEN call
    ELSE FmReturned([success |-> FALSE, path |-> path, action |-> action,
                     error |-> StrOfExc],
                    call.ops, call.files, call.dirs)

\* the containment test of manage_file:
\* not os.path.normpath(full_path).startswith(os.path.normpath(self.working_dir))
Escapes(full_path, root) == ~StartsWith(normpath(full_path), normpath(root))

\* manage_file once full_path is resolved
ManageAt(action, path, content, full_path, fault) ==
    FmCatchAll(
        IF Escapes(full_path, working_dir)
        THEN FmSame([success |-> FALSE, path |-> path, error |-> EscapeMsg], {})
        ELSE FileActionAt(action, path, content, full_path, KernelPath(full_path),
                          fault),
        action, path)

\* FileManager.manage_file
manage_file(action, path, content, fault) ==
    ManageAt(action, path, content, path_join(working_dir, path), fault)

\* FileManager.__init__ over a filesystem that holds the working
\* directories and /etc/passwd
FileInit ==
    /\ working_dir \in Roots
    /\ fs_dirs = { Slash, <<"/","e","t","c">> } \cup UNION { Chain(r) : r \in Roots }
    /\ fs_files = ( <<"/","e","t","c","/","p","a","s","s","w","d">> :> <<"r">> )
    /\ fm_request = [action |-> "none", path |-> <<>>, content |-> NoContent,
                     fault |-> FALSE]
    /\ fm_result = [success |-> FALSE]
    /\ fm_raised = "none"
    /\ fm_ops = {}

\* the state after a call of manage_file
FileAfter(action, path, content, fault, call) ==
    /\ fm_request' = [action |-> action, path |-> path, content |-> content,
                      fault |-> fault]
    /\ fm_result' = call.value
    /\ fm_raised' = call.raised
    /\ fm_ops' = call.ops
    /\ fs_files' = call.files
    /\ fs_dirs' = call.dirs
    /\ UNCHANGED working_dir
    /\ UNCHANGED <<shellVars, orchVars, parseVars, extractVars>>

\* one call of manage_file by the tool dispatcher
ManageFile(action, path, content, fault) ==
    FileAfter(action, path, content, fault,
              manage_file(action, path, content, fault))

\* the content arguments that keep the file at target within MaxContent
\* when appended to it
Fitting(args, target) ==
    IF target \notin DOMAIN fs_files THEN args
    ELSE { c \in args : Len(fs_files[target]) + Len(c.text) <= MaxContent }

\* the content a further call may pass: none where the action ignores it,
\* and for append only what keeps the file within MaxContent
ContentsOf(args, action, path) ==
    IF action \notin {"write", "append"} THEN { NoContent }
    ELSE IF action = "write" THEN args
    ELSE Fitting(args, KernelPath(path_join(working_dir, path)))

ContentsFor(action, path) == ContentsOf(ContentArgs, action, path)

\* whether the reading operation of a further call may be refused: only a
\* read or a list of something that exists has one
FaultsFor(action, path) ==
    IF /\ action \in {"read", "list"}
       /\ KernelPath(path_join(working_dir, path)) \in (DOMAIN fs_files) \cup fs_dirs
    THEN BOOLEAN ELSE {FALSE}

FileNext ==
    \E action \in Actions, path \in Paths :
        \E content \in ContentsFor(action, path), fault \in FaultsFor(action, path) :
            ManageFile(action, path, content, fault)

\* content arguments tried on the files of the working directory: none, the
\* empty string, a letter, a carriage return
TextArgs == { NoContent, Text(<<>>), Text(<<"a">>), Text(<<"\r">>) }

\* paths of files under the working directory: one directly in it, one in a
\* directory that is not there at first
FilePaths == { <<"f">>, <<"n","/","g">> }

\* calls that write, append and read the files of the working directory
TextNext ==
    \E action \in {"write", "append", "read"}, path \in FilePaths :
        \E content \in ContentsOf(TextArgs, action, path) :
            ManageFile(action, path, content, FALSE)

-----------------------------------------------------------------------------
(* AgentOrchestrator: plan parsing                                          *)

DigitChars == <<"0", "1", "2", "3", "4", "5", "6", "7", "8", "9">>

\* characters str.isdigit() accepts that are not decimal digits; the
\* superscript two stands for them
OtherDigits == {"^2"}

\* str.isdigit() of one character
IsDigit(c) == (\E i \in 1..Len(DigitChars) : DigitChars[i] = c) \/ c \in OtherDigits

\* str(n) for the small ordinals of the model
ToStr(n) == DigitChars[n + 1]

\* index of the first occurrence of sub in s (str.find, 1-based), 0 if none
FindFirst(s, sub) ==
    IF ~Contains(s, sub) THEN 0
    ELSE CHOOSE i \in 1..(Len(s) + 1) :
            /\ i + Len(sub) - 1 <= Len(s)
            /\ SubSeq(s, i, i + Len(sub) - 1) = sub
            /\ \A j \in 1..(i - 1) : SubSeq(s, j, j + Len(sub) - 1) # sub

\* Variant: the line is cut at its last ". ".
AfterFirstDotSpace_Last(line) ==
    SubSeq(line,
           2 + CHOOSE i \in 1..(Len(line) - 1) :
                   /\ SubSeq(line, i, i + 1) = <<".", " ">>
                   /\ \A j \in (i + 1)..(Len(line) - 1) :
                          SubSeq(line, j, j + 1) # <<".", " ">>,
           Len(line))

\* line.split(". ", 1)[1]: the text after the first ". "
AfterFirstDotSpace(line) ==
    SubSeq(line, FindFirst(line, <<".", " ">>) + 2, Len(line))

\* the dictionary appended to `steps`
NewStep(description, subtasks) ==
    [description |-> description, subtasks |-> subtasks, status |-> "pending"]

\* Variant: the bullet's text is taken without trimming.
subtask_Untrimmed(line) == Tail(line)

\* subtask = line[1:].strip()
subtask(line) == Strip(Tail(line))

\* Variant: any line that opens with a digit is a step line.
IsStepLine_DigitOnly(line) == IsDigit(line[1])

\* `line[0].isdigit() and ". " in line`
IsStepLine(line) == IsDigit(line[1]) /\ Contains(line, <<".", " ">>)

\* Variant: the sub-task is put in front of the list.
AddSubtask_First(current_subtasks, st) == <<st>> \o current_subtasks

\* current_subtasks.append(subtask)
AddSubtask(current_subtasks, st) == Append(current_subtasks, st)

\* one pass of the loop of _parse_plan: `line` is the stripped first line,
\* `rest` the lines after it; `open` tells whether current_step is not None
RECURSIVE ParseLines(_, _, _, _, _)
ParseLine(line, rest, steps, open, current_step, current_subtasks) ==
    IF line = <<>> THEN ParseLines(rest, steps, open, current_step, current_subtasks)
    ELSE IF IsStepLine(line)
    THEN ParseLines(rest,
                    IF open THEN Append(steps, NewStep(current_step, current_subtasks))
                    ELSE steps,
                    TRUE, AfterFirstDotSpace(line), <<>>)
    ELSE IF (line[1] = "-" \/ line[1] = "*") /\ open /\ subtask(line) # <<>>
    THEN ParseLines(rest, steps, open, current_step,
                    AddSubtask(current_subtasks, subtask(line)))
    ELSE ParseLines(rest, steps, open, current_step, current_subtasks)

\* the loop of _parse_plan over the remaining lines, and the flush after it
ParseLines(lines, steps, open, current_step, current_subtasks) ==
    IF lines = <<>>
    THEN IF open THEN Append(steps, NewStep(current_step, current_subtasks)) ELSE steps
    ELSE ParseLine(Strip(Head(lines)), Tail(lines), steps, open, current_step,
                   current_subtasks)

\* AgentOrchestrator._parse_plan
_parse_plan(plan_text) ==
    ParseLines(Split(Strip(plan_text), "\n"), <<>>, FALSE, <<>>, <<>>)

\* longest plan text tried, in lines
MaxLines == 3

\* the lines the plan texts tried are made of: headers (one with a second
\* ". ", one that opens with a digit that is not decimal), bullets of both
\* kinds (one without text, one indented and followed by a blank), a digit
\* line without ". ", a line that is neither, and the empty line
PlanLineShapes ==
    { <<"1", ".", " ", "A">>,
      <<"2", ".", " ", "B", ".", " ", "c">>,
      <<"^2", ".", " ", "y">>,
      <<"-", " ", "s">>,
      <<"*", "t">>,
      <<"-">>,
      <<" ", "-", " ", "u", " ">>,
      <<"3", ".", "x">>,
      <<"n", "o", "t", "e">>,
      <<>> }

\* "1. Step A\n- sub1\n- sub2\n2. Step B\n* sub3"
ExamplePlanText ==
    <<"1", ".", " ", "S", "t", "e", "p", " ", "A", "\n",
      "-", " ", "s", "u", "b", "1", "\n",
      "-", " ", "s", "u", "b", "2", "\n",
      "2", ".", " ", "S", "t", "e", "p", " ", "B", "\n",
      "*", " ", "s", "u", "b", "3">>

\* plan texts tried: every sequence of at most MaxLines of the lines above,
\* and the example
PlanInputs ==
    { Join(ls, <<"\n">>) :
        ls \in UNION { [1..n -> PlanLineShapes] : n \in 0..MaxLines } }
      \cup { ExamplePlanText }

\* the text "<ordinal>. <description>" and one "- <sub-task>" line per
\* sub-task for every step of a list
RECURSIVE SerializeFrom(_, _)
SerializeFrom(steps, k) ==
    IF k > Len(steps) THEN <<>>
    ELSE << <<ToStr(k), ".", " ">> \o steps[k].description >>
            \o [i \in 1..Len(steps[k].subtasks) |-> <<"-", " ">> \o steps[k].subtasks[i]]
            \o SerializeFrom(steps, k + 1)

Serialize(steps) == Join(SerializeFrom(steps, 1), <<"\n">>)

\* no call of _parse_plan on its own yet
ParseIdle ==
    /\ pp_pc = "new"
    /\ pp_steps = <<>>
    /\ pp_first = <<>>

ParseInit ==
    /\ pp_text \in PlanInputs
    /\ ParseIdle

\* the state after a call of _parse_plan
ParseAfter(phase, text, steps) ==
    /\ pp_pc' = phase
    /\ pp_text' = text
    /\ pp_first' = pp_steps
    /\ pp_steps' = steps
    /\ UNCHANGED <<shellVars, fileVars, orchVars, extractVars>>

\* _parse_plan called on a plan text
ParsePlan ==
    /\ pp_pc = "new"
    /\ ParseAfter("parsed", pp_text, _parse_plan(pp_text))

\* _parse_plan called on the text its last result is written out as
ParseOf(text) == ParseAfter("reparsed", text, _parse_plan(text))

ReparsePlan ==
    /\ pp_pc = "parsed"
    /\ ParseOf(Serialize(pp_steps))

\* the lines of a plan text, one more line put in before line `at`
WithLine(lines, line, at) ==
    SubSeq(lines, 1, at - 1) \o <<line>> \o SubSeq(lines, at, Len(lines))

\* _parse_plan called on an edited text
ParseEdited(text) == ParseAfter("edited", text, _parse_plan(text))

\* the last text with one more line put in before its line `at`
EditLines(lines, line, at) ==
    /\ Len(lines) < MaxLines
    /\ at <= Len(lines) + 1
    /\ ParseEdited(Join(WithLine(lines, line, at), <<"\n">>))

\* _parse_plan called on the last text with one more line in it
ParseWithLine(line, at) ==
    /\ pp_pc = "parsed"
    /\ EditLines(Split(pp_text, "\n"), line, at)

ParseNext ==
    \/ ParsePlan
    \/ ReparsePlan
    \/ \E line \in PlanLineShapes, at \in 1..MaxLines : ParseWithLine(line, at)

-----------------------------------------------------------------------------
(* AgentOrchestrator: tool identification and step results                  *)

UpperChars == <<"A","B","C","D","E","F","G","H","I","J","K","L","M",
                "N","O","P","Q","R","S","T","U","V","W","X","Y","Z">>
LowerChars == <<"a","b","c","d","e","f","g","h","i","j","k","l","m",
                "n","o","p","q","r","s","t","u","v","w","x","y","z">>

\* str.lower()
Lower(s) ==
    [i \in 1..Len(s) |->
        IF \E k \in 1..26 : UpperChars[k] = s[i]
        THEN LowerChars[CHOOSE k \in 1..26 : UpperChars[k] = s[i]]
        ELSE s[i]]

\* the four tools in the order _simulate_tool_execution looks for them,
\* each with its placeholder arguments
KnownTools ==
    << [tool |-> "web_scraper",
        chars |-> <<"w","e","b","_","s","c","r","a","p","e","r">>,
        args |-> [url |-> "https://example.com"]],
       [tool |-> "shell_command",
        chars |-> <<"s","h","e","l","l","_","c","o","m","m","a","n","d">>,
        args |-> [command |-> "ls -la"]],
       [tool |-> "file_manager",
        chars |-> <<"f","i","l","e","_","m","a","n","a","g","e","r">>,
        args |-> [action |-> "read", path |-> "example.txt"]],
       [tool |-> "web_search",
        chars |-> <<"w","e","b","_","s","e","a","r","c","h">>,
        args |-> [query |-> "example search query"]] >>

\* Variant: the names are looked for in the text as it is written.
ToolCalls_CaseSensitive(execution_text) ==
    LET found(i) == Contains(execution_text, KnownTools[i].chars)
        F[i \in 0..Len(KnownTools)] ==
            IF i = 0 THEN <<>>
            ELSE IF found(i)
                 THEN Append(F[i - 1], [tool |-> KnownTools[i].tool,
                                        args |-> KnownTools[i].args])
            ELSE F[i - 1]
    IN F[Len(KnownTools)]

\* tool_calls of _simulate_tool_execution
ToolCalls(execution_text) ==
    LET found(i) == Contains(Lower(execution_text), KnownTools[i].chars)
        F[i \in 0..Len(KnownTools)] ==
            IF i = 0 THEN <<>>
            ELSE IF found(i)
                 THEN Append(F[i - 1], [tool |-> KnownTools[i].tool,
                                        args |-> KnownTools[i].args])
            ELSE F[i - 1]
    IN F[Len(KnownTools)]

\* Variant: outside YOLO mode the call is refused.
Dispatch_Denied(call, yolo) ==
    [tool |-> call.tool, args |-> call.args, success |-> yolo,
     result |-> "Simulated result for " \o call.tool]

\* the body of the loop over tool_calls: outside YOLO mode nothing is asked,
\* and every call reports success
Dispatch(call, yolo) ==
    [tool |-> call.tool, args |-> call.args, success |-> TRUE,
     result |-> "Simulated result for " \o call.tool]

\* AgentOrchestrator._simulate_tool_execution
_simulate_tool_execution(execution_text, yolo) ==
    LET calls == ToolCalls(execution_text) IN
    [i \in 1..Len(calls) |-> Dispatch(calls[i], yolo)]

\* longest execution text tried, in words
MaxWords == 3

\* the words the execution texts tried are made of: the four names, names
\* in other case, a name inside a longer word, and words that are no name
ExecWords ==
    { <<"w","e","b","_","s","c","r","a","p","e","r">>,
      <<"s","h","e","l","l","_","c","o","m","m","a","n","d">>,
      <<"f","i","l","e","_","m","a","n","a","g","e","r">>,
      <<"w","e","b","_","s","e","a","r","c","h">>,
      <<"W","e","b","_","S","e","a","r","c","h">>,
      <<"S","H","E","L","L","_","C","O","M","M","A","N","D">>,
      <<"x","f","i","l","e","_","m","a","n","a","g","e","r","s">>,
      <<"w","e","b","s","e","a","r","c","h">>,
      <<"w","e","b","_">>,
      <<"s","c","r","a","p","e","r">> }

\* a text that names every tool, in the reverse of the fixed order
AllToolsText ==
    <<"w","e","b","_","s","e","a","r","c","h"," ",
      "f","i","l","e","_","m","a","n","a","g","e","r"," ",
      "s","h","e","l","l","_","c","o","m","m","a","n","d"," ",
      "w","e","b","_","s","c","r","a","p","e","r">>

\* execution texts tried: every sequence of at most MaxWords of the words
\* above with a space between them, and the text that names all four
ExecInputs ==
    { Join(ws, <<" ">>) :
        ws \in UNION { [1..n -> ExecWords] : n \in 0..MaxWords } }
      \cup { AllToolsText }

\* no call of _simulate_tool_execution on its own yet
ExtractIdle ==
    /\ ex_pc = "new"
    /\ ex_results = <<>>

ExtractInit ==
    /\ ex_text \in ExecInputs
    /\ ex_yolo \in BOOLEAN
    /\ ExtractIdle

\* the state after a call of _simulate_tool_execution
ExtractAfter(tool_executions) ==
    /\ ex_pc' = "done"
    /\ ex_results' = tool_executions
    /\ UNCHANGED <<ex_text, ex_yolo>>
    /\ UNCHANGED <<shellVars, fileVars, orchVars, parseVars>>

\* _simulate_tool_execution called on an execution text
SimulateToolExecution ==
    /\ ex_pc = "new"
    /\ ExtractAfter(_simulate_tool_execution(ex_text, ex_yolo))

ExtractNext == SimulateToolExecution

\* ', '.join(te['tool'] for te in tool_executions)
RECURSIVE JoinTools(_)
JoinTools(tes) ==
    IF tes = <<>> THEN ""
    ELSE IF Len(tes) = 1 THEN tes[1].tool
    ELSE tes[1].tool \o ", " \o JoinTools(Tail(tes))

\* AgentOrchestrator._generate_summary
_generate_summary(execution_text, tool_executions) ==
    LET success_count == Cardinality({i \in 1..Len(tool_executions) :
                                         tool_executions[i].success})
        failed_count == Len(tool_executions) - success_count
        status == IF failed_count = 0 THEN "All tools executed successfully."
                  ELSE IF success_count = 0 THEN "All tool executions failed."
                  ELSE ToStr(success_count) \o " tools succeeded, "
                       \o ToStr(failed_count) \o " tools failed."
    IN "Step execution: " \o status \o " Tools used: " \o JoinTools(tool_executions) \o "."

\* all(te["success"] for te in tool_executions)
AllSucceeded(tool_executions) ==
    \A i \in 1..Len(tool_executions) : tool_executions[i].success

\* Variant: a step needs at least one successful tool to be completed.
StepStatus_AnySucceeded(tool_executions) ==
    IF \E i \in 1..Len(tool_executions) : tool_executions[i].success
    THEN "completed" ELSE "failed"

\* the "status" entry of the result of execute_step
StepStatus(tool_executions) ==
    IF AllSucceeded(tool_executions) THEN "completed" ELSE "failed"

\* Variant: the digest runs up to the step itself.
StepContext_Inclusive(step_num, total_steps, exec_results) ==
    [step_num |-> step_num, total_steps |-> total_steps,
     previous |->
        IF step_num > 1 /\ DOMAIN exec_results # {}
        THEN LET P[n \in 0..step_num] ==
                    IF n = 0 THEN <<>>
                    ELSE IF n \in DOMAIN exec_results
                         THEN Append(P[n - 1], [step_num |-> n,
                                                summary |-> exec_results[n].summary])
                    ELSE P[n - 1]
             IN P[step_num]
        ELSE <<>>]

\* the context of execute_step: the ordinal, the total and, for each earlier
\* ordinal present in execution_results, its summary
StepContext(step_num, total_steps, exec_results) ==
    [step_num |-> step_num, total_steps |-> total_steps,
     previous |->
        IF step_num > 1 /\ DOMAIN exec_results # {}
        THEN LET P[n \in 0..(step_num - 1)] ==
                    IF n = 0 THEN <<>>
                    ELSE IF n \in DOMAIN exec_results
                         THEN Append(P[n - 1], [step_num |-> n,
                                                summary |-> exec_results[n].summary])
                    ELSE P[n - 1]
             IN P[step_num - 1]
        ELSE <<>>]

\* the result dictionary of execute_step
StepResult(execution_text, tool_executions) ==
    [execution_text |-> execution_text,
     tool_executions |-> tool_executions,
     status |-> StepStatus(tool_executions),
     summary |-> _generate_summary(execution_text, tool_executions)]

\* AgentOrchestrator.execute_step for the completion text received
execute_step(execution_text, yolo) ==
    StepResult(execution_text, _simulate_tool_execution(execution_text, yolo))

-----------------------------------------------------------------------------
(* AgentOrchestrator: run_task, plan_task, execute_plan                     *)

\* longest plan the generated plan texts describe
MaxSteps == 2

\* number of runs recorded in the history before the model stops
MaxRuns == 2

\* task texts tried
Tasks == {"task A"}

Newline == <<"\n">>

\* the line "<k>. <letter>" of a generated plan
PlanLine(k) == <<ToStr(k), ".", " ", UpperChars[k]>>

\* plan text of n numbered lines
GenPlan(n) == Join([k \in 1..n |-> PlanLine(k)], Newline)

\* a plan text with a preamble, bullets of both kinds, an indented bullet and
\* a line that is neither a header nor a bullet
IrregularPlan ==
    <<"P","l","a","n",":","\n",
      "1",".", " ","A","\n",
      " ","-"," ","s","\n",
      "n","o","t","e","\n",
      "*","t">>

\* plan texts the completion service answers with
PlanTexts == { GenPlan(MaxSteps), IrregularPlan }

\* execution text the completion service answers with: it names two tools
\* in mixed case, the second of them twice and before the first
ExecTexts ==
    { <<"W","e","b","_","S","e","a","r","c","h"," ",
        "s","h","e","l","l","_","c","o","m","m","a","n","d"," ",
        "w","e","b","_","s","e","a","r","c","h">> }

\* OpenRouterAPI.generate_completion: a text, the error payload with empty
\* text (requests.exceptions.RequestException), or another exception
Responses(texts) ==
    { [kind |-> "text", completion |-> t] : t \in texts }
        \cup { [kind |-> "error", completion |-> <<>>],
               [kind |-> "raise", completion |-> <<>>] }

\* Variant: the text of the error is read as the completion.
CompletionOf_Error(response) ==
    IF response.kind = "error"
    THEN <<"w","e","b","_","s","e","a","r","c","h"," ","f","a","i","l","e","d">>
    ELSE response.completion

\* response.get("completion", "")
CompletionOf(response) == response.completion

\* Variant: the loop leaves out the last step of the plan.
LoopDone_OffByOne(i, plan) == i + 1 >= Len(plan)

\* `for i, step in enumerate(plan)` is exhausted
LoopDone(i, plan) == i >= Len(plan)

\* the early-stop test of execute_plan
StopAfter(status, yolo) == status = "failed" /\ ~yolo

\* Variant: the status is left as the loop set it.
FinalStatus_Unset(overall_status) == overall_status

\* the overall status execute_plan returns
FinalStatus(overall_status) ==
    IF overall_status # "failed" THEN "completed" ELSE overall_status

OrchInit ==
    /\ pc = "idle"
    /\ task = ""
    /\ yolo_mode = FALSE
    /\ current_plan = <<>>
    /\ execution_results = <<>>
    /\ task_history = <<>>
    /\ results = [steps |-> <<>>, overall_status |-> "none"]
    /\ step_i = 0
    /\ requests = <<>>
    /\ dispatched = <<>>
    /\ in_flight = 0
    /\ task_thread = "none"

\* run_task up to the first step: plan_task, then the head of execute_plan
RunTask(t, yolo, response) ==
    /\ Len(task_history) < MaxRuns
    /\ task' = t
    /\ yolo_mode' = yolo
    /\ requests' = << [kind |-> "planning", step_num |-> 0,
                        answer |-> response.kind] >>
    /\ dispatched' = <<>>
    /\ IF response.kind = "raise"
       THEN /\ pc' = "raised"
            /\ in_flight' = in_flight
            /\ UNCHANGED <<current_plan, results, step_i>>
       ELSE /\ pc' = "loop"
            /\ in_flight' = in_flight + 1
            /\ current_plan' = _parse_plan(CompletionOf(response))
            /\ results' = [steps |-> <<>>, overall_status |-> "in_progress"]
            /\ step_i' = 0
    /\ UNCHANGED <<execution_results, task_history>>

\* what the task input can hold once stripped: a task or nothing
TaskInputs == Tasks \cup {""}

\* Variant: the running thread is not looked at.
TaskRunning_Unchecked(thread) == FALSE

\* `self.task_thread and self.task_thread.isRunning()`
TaskRunning(thread) == thread = "running"

\* ManusAgentGUI.run_task: the submit button or the return key. With no
\* task text, or while the task thread runs, a warning is shown and nothing
\* else happens; otherwise the thread is started and calls run_task of the
\* orchestrator, whose planning request the completion service answers
GuiRunTask(text, yolo) ==
    /\ IF text = "" \/ TaskRunning(task_thread)
       THEN UNCHANGED orchVars
       ELSE /\ task_thread' = "running"
            /\ \E response \in Responses(PlanTexts) : RunTask(text, yolo, response)
    /\ UNCHANGED <<shellVars, fileVars, parseVars, extractVars>>

\* AsyncTaskThread.run returns once run_task has returned or raised
ThreadFinished ==
    /\ task_thread = "running"
    /\ pc \in {"returned", "raised"}
    /\ task_thread' = "finished"
    /\ UNCHANGED <<pc, task, yolo_mode, current_plan, execution_results,
                   task_history, results, step_i, requests, dispatched,
                   in_flight>>
    /\ UNCHANGED <<shellVars, fileVars, parseVars, extractVars>>

\* Variant: the loop stays on the step it has just executed.
NextIndex_Stay(i, stop) == i

\* the loop index after an iteration
NextIndex(i, stop) == IF stop THEN i ELSE i + 1

\* Variant: the status is written to every step of the plan.
MarkStep_All(plan, step_num, status) ==
    [k \in 1..Len(plan) |-> [plan[k] EXCEPT !.status = status]]

\* step["status"] = step_result.get("status", "unknown")
MarkStep(plan, step_num, status) ==
    [plan EXCEPT ![step_num].status = status]

\* the state after an iteration of the loop of execute_plan in which
\* execute_step returned `result`
StepAfter(step_num, result, stop) ==
    /\ dispatched' = dispatched \o
            [k \in 1..Len(result.tool_executions) |->
                [step_num |-> step_num, tool |-> result.tool_executions[k].tool]]
    /\ execution_results' = (step_num :> result) @@ execution_results
    /\ current_plan' = MarkStep(current_plan, step_num, result.status)
    /\ results' =
         [steps |-> Append(results.steps,
                           [step_num |-> step_num,
                            description |-> current_plan[step_num].description,
                            result |-> result,
                            status |-> result.status]),
          overall_status |-> IF stop THEN "failed" ELSE results.overall_status]
    /\ pc' = IF stop THEN "stopped" ELSE "loop"
    /\ step_i' = NextIndex(step_i, stop)

\* the early-stop decision of the iteration on the step's result
StepDone(step_num, result) ==
    StepAfter(step_num, result, StopAfter(result.status, yolo_mode))

\* one iteration of the loop of execute_plan
ExecuteStep(response) ==
    /\ pc = "loop"
    /\ ~LoopDone(step_i, current_plan)
    /\ requests' = Append(requests,
                          [kind |-> "execution", step_num |-> step_i + 1,
                           answer |-> response.kind,
                           context |-> StepContext(step_i + 1, Len(current_plan),
                                                   execution_results)])
    /\ IF response.kind = "raise"
       THEN /\ pc' = "raised"
            /\ in_flight' = in_flight - 1
            /\ UNCHANGED <<current_plan, execution_results, results, step_i, dispatched>>
       ELSE /\ StepDone(step_i + 1, execute_step(CompletionOf(response), yolo_mode))
            /\ in_flight' = in_flight
    /\ UNCHANGED <<task, yolo_mode, task_history, task_thread>>
    /\ UNCHANGED <<shellVars, fileVars, parseVars, extractVars>>

\* Variant: the composite result replaces the history.
RunAfter_Replace(final) ==
    /\ results' = final
    /\ task_history' = << [task |-> task, plan |-> current_plan,
                           execution |-> final, yolo_mode |-> yolo_mode] >>
    /\ pc' = "returned"
    /\ in_flight' = in_flight - 1
    /\ UNCHANGED <<task, yolo_mode, current_plan, execution_results, step_i,
                   requests, dispatched, task_thread>>
    /\ UNCHANGED <<shellVars, fileVars, parseVars, extractVars>>

\* the state after execute_plan returned `final` to run_task
RunAfter(final) ==
    /\ results' = final
    /\ task_history' = Append(task_history,
                              [task |-> task, plan |-> current_plan,
                               execution |-> final, yolo_mode |-> yolo_mode])
    /\ pc' = "returned"
    /\ in_flight' = in_flight - 1
    /\ UNCHANGED <<task, yolo_mode, current_plan, execution_results, step_i,
                   requests, dispatched, task_thread>>
    /\ UNCHANGED <<shellVars, fileVars, parseVars, extractVars>>

\* the tail of execute_plan and of run_task: the overall status, the
\* composite result, the history
FinishRun ==
    /\ IF pc = "stopped" THEN TRUE
       ELSE pc = "loop" /\ LoopDone(step_i, current_plan)
    /\ RunAfter([results EXCEPT !.overall_status = FinalStatus(@)])

\* ManusAgentGUI.clear_history once confirmed; the button works at any
\* time, a run in progress included
ClearHistory ==
    /\ task_history # <<>>
    /\ task_history' = <<>>
    /\ UNCHANGED <<pc, task, yolo_mode, current_plan, execution_results, results,
                   step_i, requests, dispatched, in_flight, task_thread>>
    /\ UNCHANGED <<shellVars, fileVars, parseVars, extractVars>>

OrchNext ==
    \/ \E text \in TaskInputs, yolo \in BOOLEAN : GuiRunTask(text, yolo)
    \/ \E response \in Responses(ExecTexts) : ExecuteStep(response)
    \/ FinishRun
    \/ ThreadFinished
    \/ ClearHistory

-----------------------------------------------------------------------------
(* Specifications: each component driven on its own, the others as          *)
(* constructed                                                              *)

\* the tools as AgentOrchestrator.__init__ constructs them from the default
\* settings, without a container runtime
ShellDefault ==
    /\ sh_ctor = [allowed |-> DefaultAllowed, blocked |-> DefaultBlocked,
                  enable_sandbox |-> TRUE, docker_available |-> FALSE,
                  from_env_ok |-> FALSE]
    /\ allowed_commands = DefaultAllowed
    /\ blocked_commands = DefaultBlocked
    /\ enable_sandbox = FALSE
    /\ docker_client = FALSE
    /\ settings_sandbox = TRUE
    /\ sh_command = <<>>
    /\ sh_outcome = [success |-> FALSE]
    /\ sh_raised = "none"
    /\ sh_started = <<>>
    /\ sh_child = NoChild
    /\ script_left = 0
    /\ chk_command = <<>>
    /\ chk_allowed = FALSE

FileDefault ==
    /\ FileInit
    /\ working_dir = <<"/","w">>

\* _parse_plan and _simulate_tool_execution not called on their own
NoCalls ==
    /\ ParseIdle
    /\ pp_text = <<>>
    /\ ExtractIdle
    /\ ex_text = <<>>
    /\ ex_yolo = FALSE

InitShell == ShellInit /\ FileDefault /\ OrchInit /\ NoCalls

InitFiles == ShellDefault /\ FileInit /\ OrchInit /\ NoCalls

InitOrch == ShellDefault /\ FileDefault /\ OrchInit /\ NoCalls

InitParse ==
    /\ ShellDefault /\ FileDefault /\ OrchInit /\ ParseInit
    /\ ExtractIdle /\ ex_text = <<>> /\ ex_yolo = FALSE

InitExtract ==
    /\ ShellDefault /\ FileDefault /\ OrchInit /\ ExtractInit
    /\ ParseIdle /\ pp_text = <<>>

\* the command runner under every policy and backend
SpecShell == InitShell /\ [][ShellNext]_vars

\* the file manager under every working directory
SpecFiles == InitFiles /\ [][FileNext]_vars

\* the orchestrator running tasks one after the other
SpecOrch == InitOrch /\ [][OrchNext]_vars

\* the plan parser on every plan text
SpecParse == InitParse /\ [][ParseNext]_vars

\* the tool extraction and dispatch on every execution text
SpecExtract == InitExtract /\ [][ExtractNext]_vars

\* the file manager of the default working directory, writing, appending
\* and reading files in it
InitText == ShellDefault /\ FileDefault /\ OrchInit /\ NoCalls

SpecText == InitText /\ [][TextNext]_vars

-----------------------------------------------------------------------------
(* Properties of the command policy and of the runner (SpecShell)           *)

LsLa == <<"l","s"," ","-","l","a">>
RmRfTmp == <<"r","m"," ","-","r","f"," ","/","t","m","p">>
ScpFileHost == <<"s","c","p"," ","f","i","l","e"," ","h","o","s","t",":">>

\* some configured blocked pattern occurs somewhere in the command
SomeBlockedIn(command) ==
    \E i \in 1..Len(blocked_commands) : Contains(command, blocked_commands[i])

\* the command has a character that is not whitespace
HasToken(command) == \E i \in 1..Len(command) : command[i] \notin Whitespace

\* the first maximal run of characters that are not whitespace
FirstToken(command) ==
    LET from == CHOOSE i \in 1..Len(command) :
                    /\ command[i] \notin Whitespace
                    /\ \A j \in 1..(i - 1) : command[j] \in Whitespace
        to   == CHOOSE k \in from..Len(command) :
                    /\ \A j \in from..k : command[j] \notin Whitespace
                    /\ k = Len(command) \/ command[k + 1] \in Whitespace
    IN  SubSeq(command, from, to)

\* C7: under every policy, a command in which some configured blocked
\* pattern occurs anywhere is refused by is_command_allowed, whatever the
\* allow list contains.
C7_BlockListWins == SomeBlockedIn(chk_command) => ~chk_allowed

\* "rm -rf /tmp" was refused although rm is in the allow list
C7_Witness ==
    /\ chk_command = RmRfTmp
    /\ InList(<<"r","m">>, allowed_commands)
    /\ SomeBlockedIn(chk_command)
    /\ ~chk_allowed

ShellCalled == "command" \in DOMAIN sh_outcome

\* C9: a run of a command the policy refuses returns success=false with an
\* error and launches neither a local child nor a container; whatever was
\* launched on either backend ran a command the policy in force accepts.
C9_RejectedNotStarted ==
    ShellCalled =>
        /\ ~( /\ HasToken(sh_command)
              /\ ~SomeBlockedIn(sh_command)
              /\ \/ allowed_commands = <<>>
                 \/ InList(FirstToken(sh_command), allowed_commands) )
           => /\ sh_raised = "none"
              /\ sh_outcome.success = FALSE
              /\ "error" \in DOMAIN sh_outcome
              /\ sh_outcome.error # ""
              /\ sh_started = <<>>
              /\ sh_child = NoChild
              /\ script_left = 0
        /\ sh_started # <<>> => is_command_allowed(sh_command)

\* a refused command came back as a failure value and nothing was launched
C9_Witness ==
    /\ ShellCalled
    /\ sh_command = RmRfTmp
    /\ ~is_command_allowed(sh_command)
    /\ sh_outcome.success = FALSE
    /\ sh_outcome.error = NotAllowedMsg
    /\ sh_started = <<>>

\* C10: run_command never raises; a local child that outlives the timeout
\* gives success=false with the timeout message; one call launches the
\* command at most once; every other fault comes back as a failure value.
C10_NeverRaises ==
    /\ sh_raised = "none"
    /\ Len(sh_started) <= 1
    /\ ShellCalled =>
        /\ ( /\ sh_started = <<"local">>
             /\ sh_child.fault = "none"
             /\ sh_child.duration > LocalTimeout )
           => /\ sh_outcome.success = FALSE
              /\ sh_outcome.error = TimedOutMsg
        /\ ( sh_child.fault \notin {"none", "not started"} )
           => /\ sh_outcome.success = FALSE
              /\ "error" \in DOMAIN sh_outcome

\* an accepted command ran locally past the timeout and came back as a
\* failure value that states the timeout
C10_Witness ==
    /\ ShellCalled
    /\ sh_started = <<"local">>
    /\ sh_child.fault = "none"
    /\ sh_child.duration > LocalTimeout
    /\ sh_raised = "none"
    /\ sh_outcome.success = FALSE
    /\ sh_outcome.error = TimedOutMsg

-----------------------------------------------------------------------------
(* Properties of the working-directory guard (SpecFiles)                    *)

\* the components of a path
Comps(p) == SelectSeq(Split(p, "/"), LAMBDA c : c # <<>>)

\* contained in the root by path components: the root itself or a
\* descendant of it
InsideRoot(p, root) ==
    LET pc_ == Comps(normpath(p))
        rc == Comps(normpath(root))
    IN Len(rc) <= Len(pc_) /\ SubSeq(pc_, 1, Len(rc)) = rc

\* manage_file was called at least once
FileCalled == fm_request.action # "none"

\* the last call was refused as a path escape and touched nothing
RefusedAsEscape ==
    /\ fm_raised = "none"
    /\ fm_result.success = FALSE
    /\ "error" \in DOMAIN fm_result
    /\ fm_result.error = EscapeMsg
    /\ fm_ops = {}

\* C5: for every action and path, when the path joined to the working
\* directory and normalized is neither the working directory nor below it
\* by path components, manage_file returns the path-escape failure and
\* makes no filesystem call.
C5_EscapeRejected ==
    ( /\ FileCalled
      /\ ~InsideRoot(path_join(working_dir, fm_request.path), working_dir) )
    => RefusedAsEscape

\* a request that resolves to a sibling of the working directory whose name
\* starts with the working directory's name reached the filesystem
C5_Witness ==
    /\ FileCalled
    /\ working_dir = <<"/","w">>
    /\ fm_request.path = <<".",".","/","w","x","/","f">>
    /\ ~InsideRoot(path_join(working_dir, fm_request.path), working_dir)
    /\ fm_ops # {}

\* C6: under every working directory, a request for "../../etc/passwd" is
\* refused as a path escape and makes no filesystem call.
C6_EtcPasswdRejected ==
    ( FileCalled /\ fm_request.path = EtcPasswdPath ) => RefusedAsEscape

\* "../../etc/passwd" under the working directory /e was read
C6_Witness ==
    /\ working_dir = <<"/","e">>
    /\ fm_request.action = "read"
    /\ fm_request.path = EtcPasswdPath
    /\ fm_result.success
    /\ fm_result.content = fs_files[<<"/","e","t","c","/","p","a","s","s","w","d">>]
    /\ fm_ops # {}

-----------------------------------------------------------------------------
(* Properties of execute_plan and execute_step (SpecOrch)                   *)

\* execute_plan has returned to run_task
PlanReturned == pc = "returned"

\* a completion request was issued for step k of the current run
Requested(k) ==
    \E r \in 1..Len(requests) :
        requests[r].kind = "execution" /\ requests[r].step_num = k

\* C2: in YOLO mode execute_plan over a plan of n steps executes all n
\* steps, returns n step records numbered 1..n and reports the overall
\* status completed, whatever the steps' own statuses are.
C2_YoloRunsAll ==
    ( PlanReturned /\ yolo_mode ) =>
        /\ Len(results.steps) = Len(current_plan)
        /\ \A k \in 1..Len(current_plan) :
              /\ results.steps[k].step_num = k
              /\ Requested(k)
        /\ results.overall_status = "completed"

\* a YOLO run over a plan of MaxSteps steps returned with all of them run
C2_Witness ==
    /\ PlanReturned
    /\ yolo_mode
    /\ Len(current_plan) = MaxSteps
    /\ Len(results.steps) = MaxSteps
    /\ \A k \in 1..MaxSteps : Requested(k)
    /\ results.overall_status = "completed"

\* C3: when execute_plan returns, the overall status is completed or failed,
\* and it is failed exactly when YOLO mode is off and the last executed step
\* has status failed; in every other case, the empty plan included, it is
\* completed.
C3_OverallStatus ==
    PlanReturned =>
        /\ results.overall_status \in {"completed", "failed"}
        /\ results.overall_status = "failed"
              <=> ( /\ ~yolo_mode
                    /\ results.steps # <<>>
                    /\ results.steps[Len(results.steps)].status = "failed" )
        /\ current_plan = <<>> => results.overall_status = "completed"

\* a run without YOLO mode returned completed after its last step completed,
\* after an earlier run over the empty plan had returned completed
C3_Witness ==
    /\ PlanReturned
    /\ ~yolo_mode
    /\ results.steps # <<>>
    /\ results.steps[Len(results.steps)].status = "completed"
    /\ results.overall_status = "completed"
    /\ \E h \in 1..Len(task_history) :
          /\ task_history[h].plan = <<>>
          /\ task_history[h].execution.overall_status = "completed"

\* status is completed exactly when every tool execution succeeded
StatusMatchesTools(result) ==
    /\ result.status \in {"completed", "failed"}
    /\ result.status = "completed"
          <=> \A i \in 1..Len(result.tool_executions) :
                  result.tool_executions[i].success

\* C4: the status of every executed step's result is completed if and only
\* if every tool execution of the step succeeded, and failed otherwise; a
\* step with no tool invocation has status completed.
C4_StepStatus ==
    /\ \A k \in DOMAIN execution_results :
          /\ StatusMatchesTools(execution_results[k])
          /\ execution_results[k].tool_executions = <<>>
                => execution_results[k].status = "completed"
    /\ \A k \in 1..Len(results.steps) :
          /\ StatusMatchesTools(results.steps[k].result)
          /\ results.steps[k].status = results.steps[k].result.status

\* one executed step used no tool and another used several; both completed
C4_Witness ==
    \E j, k \in DOMAIN execution_results :
        /\ execution_results[j].tool_executions = <<>>
        /\ execution_results[j].status = "completed"
        /\ Len(execution_results[k].tool_executions) > 1
        /\ execution_results[k].status = "completed"

-----------------------------------------------------------------------------
(* Properties of the plan parser (SpecParse)                                *)

\* _parse_plan was called
Parsed == pp_pc # "new"

\* the trimmed lines of a plan text
TrimmedLines(text) ==
    [i \in 1..Len(Split(Strip(text), "\n")) |-> Strip(Split(Strip(text), "\n")[i])]

DecimalDigits == {"0", "1", "2", "3", "4", "5", "6", "7", "8", "9"}

\* a step header by decimal digit, and by any digit character
DecimalHeader(line) ==
    line # <<>> /\ line[1] \in DecimalDigits /\ Contains(line, <<".", " ">>)

DigitHeader(line) ==
    line # <<>> /\ line[1] \in (DecimalDigits \cup OtherDigits)
                /\ Contains(line, <<".", " ">>)

\* a bullet line, and a bullet line that has text after its marker
Bullet(line) == line # <<>> /\ line[1] \in {"-", "*"}

BulletWithText(line) == Bullet(line) /\ Strip(Tail(line)) # <<>>

\* the text after the first ". " of a header line
DescriptionOf(line) ==
    CHOOSE d \in { SubSeq(line, i, Len(line)) : i \in 1..(Len(line) + 1) } :
        \E a \in { SubSeq(line, 1, i) : i \in 0..Len(line) } :
            /\ line = a \o <<".", " ">> \o d
            /\ ~Contains(a \o <<".">>, <<".", " ">>)

\* positions 1..n in ascending order
Positions(n) == [i \in 1..n |-> i]

\* the steps a list of trimmed lines stands for: one per header line, in
\* order, each with the texts of the sub-task lines up to the next header
StepsOf(lines, Header(_), SubTask(_)) ==
    LET hs == SelectSeq(Positions(Len(lines)), LAMBDA i : Header(lines[i]))
        until(j) == IF j < Len(hs) THEN hs[j + 1] ELSE Len(lines) + 1
        subs(j) == SelectSeq(Positions(Len(lines)),
                             LAMBDA i : hs[j] < i /\ i < until(j) /\ SubTask(lines[i]))
    IN [j \in 1..Len(hs) |->
           [description |-> DescriptionOf(lines[hs[j]]),
            subtasks |-> [k \in 1..Len(subs(j)) |-> Strip(Tail(lines[subs(j)[k]]))],
            status |-> "pending"]]

\* the two steps of the example plan text
ExampleSteps ==
    << [description |-> <<"S", "t", "e", "p", " ", "A">>,
        subtasks |-> << <<"s", "u", "b", "1">>, <<"s", "u", "b", "2">> >>,
        status |-> "pending"],
       [description |-> <<"S", "t", "e", "p", " ", "B">>,
        subtasks |-> << <<"s", "u", "b", "3">> >>,
        status |-> "pending"] >>

\* C11 as stated: _parse_plan yields one pending step per trimmed line that
\* opens with a decimal digit and contains ". ", in order, described by the
\* text after the first ". ", with every bullet line up to the next header
\* as a sub-task; bullets before the first header belong to no step and a
\* text without header yields the empty list.
C11_ParseAsStated ==
    Parsed => pp_steps = StepsOf(TrimmedLines(pp_text), DecimalHeader, Bullet)

\* C11 as amended: a header opens with any character str.isdigit accepts,
\* and only bullet lines with text after the marker become sub-tasks.
C11_ParseSteps ==
    Parsed =>
        /\ pp_steps = StepsOf(TrimmedLines(pp_text), DigitHeader, BulletWithText)
        /\ pp_text = ExamplePlanText => pp_steps = ExampleSteps
        /\ (\A i \in 1..Len(TrimmedLines(pp_text)) :
                ~DigitHeader(TrimmedLines(pp_text)[i])) => pp_steps = <<>>

\* the example text was parsed into its two steps
C11_Witness ==
    /\ pp_pc = "parsed"
    /\ pp_text = ExamplePlanText
    /\ pp_steps = ExampleSteps

\* C12: writing the steps _parse_plan produced as "<ordinal>. <description>"
\* lines, each followed by one "- <sub-task>" line per sub-task, and parsing
\* that text gives the same step list again: same descriptions, same
\* sub-tasks, same order, all pending.
C12_RoundTrip ==
    pp_pc = "reparsed" =>
        /\ pp_text = Serialize(pp_first)
        /\ pp_steps = pp_first
        /\ \A k \in 1..Len(pp_steps) : pp_steps[k].status = "pending"

\* a list of several steps, one with two sub-tasks, came back unchanged
C12_Witness ==
    /\ pp_pc = "reparsed"
    /\ Len(pp_first) > 1
    /\ \E k \in 1..Len(pp_first) : Len(pp_first[k].subtasks) > 1
    /\ pp_steps = pp_first

\* a step parses the last text again with one more line in it
EditStep == pp_pc = "parsed" /\ pp_pc' = "edited"

\* the line was put in before line `at` of the text, which is otherwise as
\* it was
InsertedAt(before, after, at) ==
    /\ Len(after) = Len(before) + 1
    /\ at \in 1..Len(after)
    /\ SubSeq(after, 1, at - 1) = SubSeq(before, 1, at - 1)
    /\ SubSeq(after, at + 1, Len(after)) = SubSeq(before, at, Len(before))

\* the step list with one more sub-task at the end of its last step
WithSubTask(steps, st) ==
    [steps EXCEPT ![Len(steps)].subtasks = Append(@, st)]

\* what C22 says of a line added at the end of a text whose lines were
\* `before`: if Counts holds of the trimmed line and a step is open, its
\* trimmed remainder is one more last sub-task of the last step
BulletAppends(before, after, Counts(_)) ==
    (/\ InsertedAt(before, after, Len(after))
     /\ Counts(Strip(after[Len(after)]))
     /\ pp_steps # <<>>)
        => pp_steps' = WithSubTask(pp_steps, Strip(Tail(Strip(after[Len(after)]))))

\* C22 as stated: a line that begins with "-" or "*", read while a step is
\* open, appends its trimmed remainder as the new last sub-task of the open
\* step and changes nothing else of the step list.
C22_BulletAsStated ==
    [][EditStep =>
          BulletAppends(Split(pp_text, "\n"), Split(pp_text', "\n"), Bullet)]_vars

\* C22 as amended: this holds of every bullet line that has text after its
\* marker; a bullet line without such text leaves the step list as it is.
C22_BulletAppends ==
    [][EditStep =>
          /\ BulletAppends(Split(pp_text, "\n"), Split(pp_text', "\n"),
                           BulletWithText)
          /\ (/\ InsertedAt(Split(pp_text, "\n"), Split(pp_text', "\n"),
                            Len(Split(pp_text', "\n")))
              /\ Bullet(Strip(Split(pp_text', "\n")[Len(Split(pp_text', "\n"))]))
              /\ ~BulletWithText(Strip(Split(pp_text', "\n")[Len(Split(pp_text', "\n"))])))
                => pp_steps' = pp_steps]_vars

\* "1. A\n- s" was parsed again with the line "*t" after it: step A has the
\* sub-tasks s and t, in this order
C22_Witness ==
    /\ pp_pc = "edited"
    /\ pp_text = <<"1", ".", " ", "A", "\n", "-", " ", "s", "\n", "*", "t">>
    /\ pp_first = << NewStep(<<"A">>, << <<"s">> >>) >>
    /\ pp_steps = << NewStep(<<"A">>, << <<"s">>, <<"t">> >>) >>

\* what C23 says of a line put anywhere into a text whose lines were
\* `before`: if it is blank, or neither a header by Header nor a bullet, the
\* step list is the same
LineIgnored(before, after, Header(_)) ==
    \A at \in 1..Len(after) :
        (/\ InsertedAt(before, after, at)
         /\ ~Header(Strip(after[at]))
         /\ ~Bullet(Strip(after[at])))
            => pp_steps' = pp_steps

\* C23 as stated: a line that is blank, or neither a step header (first
\* character a decimal digit, and ". " in the line) nor a bullet line, can be
\* put anywhere into a text, or taken out of it, without changing the step
\* list parsed.
C23_IgnoredAsStated ==
    [][EditStep =>
          LineIgnored(Split(pp_text, "\n"), Split(pp_text', "\n"), DecimalHeader)]_vars

\* C23 as amended: the same with a step header being a line whose first
\* character is any digit str.isdigit accepts and which contains ". ".
C23_Ignored ==
    [][EditStep =>
          LineIgnored(Split(pp_text, "\n"), Split(pp_text', "\n"), DigitHeader)]_vars

\* "1. A\n- s" was parsed again with the line "note" between its two lines:
\* the step list is the same, step A with the one sub-task s
C23_Witness ==
    /\ pp_pc = "edited"
    /\ pp_text = <<"1", ".", " ", "A", "\n", "n", "o", "t", "e", "\n", "-", " ", "s">>
    /\ pp_first = << NewStep(<<"A">>, << <<"s">> >>) >>
    /\ pp_steps = pp_first

-----------------------------------------------------------------------------
(* Properties of the file actions (SpecFiles)                               *)

\* the entry a path argument names under the working directory
TargetOf(path) == KernelPath(path_join(working_dir, path))

\* a step is a call manage_file("delete", p) for a path inside the root
DeleteInRoot ==
    /\ fm_request'.action = "delete"
    /\ InsideRoot(path_join(working_dir, fm_request'.path), working_dir)

\* what the claim says of such a call on the entry `target`
DeleteEffect(target) ==
    IF target \notin DOMAIN fs_files
    THEN /\ fm_raised' = "none"
         /\ fm_result'.success = FALSE
         /\ "error" \in DOMAIN fm_result'
         /\ fm_result'.error = IF target \in fs_dirs THEN "Cannot delete directories"
                               ELSE "File does not exist"
         /\ fs_files' = fs_files
         /\ fs_dirs' = fs_dirs
    ELSE /\ fm_raised' = "none"
         /\ fm_result'.success = TRUE
         /\ DOMAIN fs_files' = (DOMAIN fs_files) \ {target}
         /\ \A q \in DOMAIN fs_files' : fs_files'[q] = fs_files[q]
         /\ fs_dirs' = fs_dirs

\* C13: a delete of an in-root path fails with an error and removes nothing
\* when the path does not exist or is a directory; on an existing file it
\* removes that file and leaves every other entry as it was.
C13_Delete ==
    [][ DeleteInRoot => DeleteEffect(TargetOf(fm_request'.path)) ]_vars

\* a file inside the root was deleted while the entries around it remain,
\* and the working directory itself is still there
C13_Witness ==
    /\ fm_request.action = "delete"
    /\ InsideRoot(path_join(working_dir, fm_request.path), working_dir)
    /\ fm_result.success
    /\ <<"unlink", path_join(working_dir, fm_request.path)>> \in fm_ops
    /\ TargetOf(fm_request.path) \notin DOMAIN fs_files
    /\ DOMAIN fs_files # {}
    /\ working_dir \in fs_dirs

\* the five action names manage_file knows
KnownActions == {"read", "write", "append", "delete", "list"}

\* the last call named an action manage_file does not know
UnknownCalled == FileCalled /\ fm_request.action \notin KnownActions

\* the last call came back with the unknown-action error
UnknownActionError ==
    /\ "error" \in DOMAIN fm_result
    /\ fm_result.error = "Unknown action: " \o fm_request.action

\* C14 as stated: for an action name other than read, write, append, delete
\* and list, manage_file returns success=false with the unknown-action
\* error and changes nothing in the filesystem.
C14_UnknownAsStated ==
    UnknownCalled =>
        /\ fm_raised = "none"
        /\ fm_result.success = FALSE
        /\ UnknownActionError
        /\ fm_ops = {}

\* C14 as amended: such a call returns success=false and makes no
\* filesystem call; the error is the unknown-action error when the path
\* passes the working-directory test, and the path-escape error when not.
C14_UnknownAction ==
    UnknownCalled =>
        /\ fm_raised = "none"
        /\ fm_result.success = FALSE
        /\ fm_ops = {}
        /\ IF Escapes(path_join(working_dir, fm_request.path), working_dir)
           THEN "error" \in DOMAIN fm_result /\ fm_result.error = EscapeMsg
           ELSE UnknownActionError

\* an unknown action on a path under the working directory was refused by
\* name while the filesystem holds entries it could have touched
C14_Witness ==
    /\ UnknownCalled
    /\ ~Escapes(path_join(working_dir, fm_request.path), working_dir)
    /\ fm_result.success = FALSE
    /\ UnknownActionError
    /\ fm_ops = {}

-----------------------------------------------------------------------------
(* Properties of the history, the step order and the step context           *)
(* (SpecOrch)                                                               *)

\* a step in which run_task returns
RunReturns == pc # "returned" /\ pc' = "returned"

\* a step of clear_history
HistoryCleared ==
    /\ task_history # <<>>
    /\ task_history' = <<>>
    /\ UNCHANGED <<pc, results, current_plan>>

\* C15: a run_task call that returns appends one composite result to the
\* end of the history, with the task, the mode flag, the plan and the
\* execution result of that run; a call that raises appends nothing; no
\* step of a run alters or removes an entry, so the history changes by
\* these appends and by clear_history only.
C15_History ==
    [][ /\ RunReturns =>
              task_history' = Append(task_history,
                                     [task |-> task', plan |-> current_plan',
                                      execution |-> results',
                                      yolo_mode |-> yolo_mode'])
        /\ ~RunReturns => \/ task_history' = task_history
                          \/ HistoryCleared
        /\ pc' = "raised" => Len(task_history') <= Len(task_history) ]_vars

\* two runs that differ in the mode flag are in the history in the order
\* they returned, the last of them being the run that has just returned
C15_Witness ==
    /\ pc = "returned"
    /\ Len(task_history) = 2
    /\ task_history[1].yolo_mode # task_history[2].yolo_mode
    /\ task_history[1].plan # task_history[2].plan
    /\ task_history[2] = [task |-> task, plan |-> current_plan,
                          execution |-> results, yolo_mode |-> yolo_mode]

\* the completion requests of the current run that ask for a step
ExecRequests == SelectSeq(requests, LAMBDA r : r.kind = "execution")

\* a step of the run in which the completion request of a step is issued
StepRequested == pc = "loop" /\ Len(requests') = Len(requests) + 1

\* C16: execute_plan takes the steps in plan order, one at a time: record i
\* of results.steps has step_num i and the description of plan step i, a
\* step is requested at most once per run, and the request of step k is
\* issued only once every tool of the steps before it has been dispatched
\* and their results are recorded.
C16_InOrder ==
    /\ [](/\ \A i \in 1..Len(results.steps) :
                /\ results.steps[i].step_num = i
                /\ results.steps[i].description = current_plan[i].description
          /\ \A j \in 1..Len(ExecRequests) : ExecRequests[j].step_num = j
          /\ Len(ExecRequests) <= Len(current_plan)
          /\ \A d \in 1..Len(dispatched) :
                /\ dispatched[d].step_num <= Len(ExecRequests)
                /\ d > 1 => dispatched[d - 1].step_num <= dispatched[d].step_num)
    /\ [][ StepRequested =>
              /\ requests'[Len(requests')].step_num = Len(results.steps) + 1
              /\ \A k \in 1..Len(results.steps) :
                    /\ k \in DOMAIN execution_results
                    /\ execution_results[k] = results.steps[k].result
              /\ \A d \in 1..Len(dispatched) :
                    dispatched[d].step_num <= Len(results.steps)
              /\ \A d \in (Len(dispatched) + 1)..Len(dispatched') :
                    dispatched'[d].step_num = Len(results.steps) + 1 ]_vars

\* a run over MaxSteps steps returned with every step requested once, its
\* tools dispatched and its record in place
C16_Witness ==
    /\ pc = "returned"
    /\ Len(current_plan) = MaxSteps
    /\ Len(results.steps) = MaxSteps
    /\ Len(ExecRequests) = MaxSteps
    /\ \A k \in 1..MaxSteps :
          \E d \in 1..Len(dispatched) : dispatched[d].step_num = k

\* the digest the context of step k is to hold: the summaries of the steps
\* 1..k-1 of this run, in ascending order
DigestOf(k) ==
    [n \in 1..(k - 1) |-> [step_num |-> n, summary |-> results.steps[n].result.summary]]

-----------------------------------------------------------------------------
\* Tool extraction and dispatch (SpecExtract)

\* _simulate_tool_execution has returned
Extracted == ex_pc = "done"

\* the two characters are the same letter, whatever their case
SameIgnoringCase(a, b) ==
    \/ a = b
    \/ \E k \in 1..Len(LowerChars) :
          {a, b} = {LowerChars[k], UpperChars[k]}

\* the name occurs somewhere in the text, ignoring case
OccursIgnoringCase(name, text) ==
    \E at \in 0..(Len(text) - Len(name)) :
        \A k \in 1..Len(name) : SameIgnoringCase(text[at + k], name[k])

\* how many times the name occurs in the text, ignoring case
Occurrences(name, text) ==
    Cardinality({ at \in 0..(Len(text) - Len(name)) :
        \A k \in 1..Len(name) : SameIgnoringCase(text[at + k], name[k]) })

\* the known tools in their fixed order, with their placeholder arguments
FixedOrder ==
    << [name |-> <<"w","e","b","_","s","c","r","a","p","e","r">>,
        tool |-> "web_scraper",
        args |-> [url |-> "https://example.com"]],
       [name |-> <<"s","h","e","l","l","_","c","o","m","m","a","n","d">>,
        tool |-> "shell_command",
        args |-> [command |-> "ls -la"]],
       [name |-> <<"f","i","l","e","_","m","a","n","a","g","e","r">>,
        tool |-> "file_manager",
        args |-> [action |-> "read", path |-> "example.txt"]],
       [name |-> <<"w","e","b","_","s","e","a","r","c","h">>,
        tool |-> "web_search",
        args |-> [query |-> "example search query"]] >>

\* the positions of the results that belong to the n-th known tool
ResultsOf(n) ==
    { i \in 1..Len(ex_results) : ex_results[i].tool = FixedOrder[n].tool }

\* C18: the call returns at most one result per known tool; the n-th known
\* tool has a result exactly when its name occurs in the execution text
\* ignoring case, however often; the result carries the tool's placeholder
\* arguments; the results stand in the fixed order web_scraper,
\* shell_command, file_manager, web_search; and every result belongs to a
\* known tool.
C18_Extract ==
    Extracted =>
        /\ \A n \in 1..Len(FixedOrder) :
              /\ Cardinality(ResultsOf(n)) <= 1
              /\ ResultsOf(n) # {} <=> OccursIgnoringCase(FixedOrder[n].name, ex_text)
              /\ \A i \in ResultsOf(n) : ex_results[i].args = FixedOrder[n].args
        /\ \A i \in 1..Len(ex_results) :
              \E n \in 1..Len(FixedOrder) : i \in ResultsOf(n)
        /\ \A m, n \in 1..Len(FixedOrder) :
              \A i \in ResultsOf(m) : \A j \in ResultsOf(n) :
                  m < n => i < j

\* a text that names web_search before shell_command, the first one twice
\* and in capitals, has returned shell_command before web_search, once each
C18_Witness ==
    /\ Extracted
    /\ Occurrences(FixedOrder[4].name, ex_text) = 2
    /\ ~Contains(ex_text, FixedOrder[4].name)
    /\ Len(ex_results) = 2
    /\ ex_results[1].tool = "shell_command"
    /\ ex_results[2].tool = "web_search"
    /\ FindFirst(Lower(ex_text), FixedOrder[4].name)
          < FindFirst(Lower(ex_text), FixedOrder[2].name)

-----------------------------------------------------------------------------
\* Isolated execution: the temporary script (SpecShell)

\* the last call of run_command entered _run_sandboxed and has ended
IsolatedEnded ==
    /\ ShellCalled
    /\ sh_child \in SandboxChildren

\* C19 as stated: whenever isolated execution of a command has ended, by a
\* normal return, a container error or an exception at any point, setup
\* included, no temporary script file created for that command is left.
C19_ScriptRemoved == IsolatedEnded => script_left = 0

\* an isolated execution whose write of the script raised has ended with the
\* Docker error value and its script file still there
C19_Witness ==
    /\ IsolatedEnded
    /\ sh_child.fault = "write"
    /\ sh_raised = "none"
    /\ sh_outcome.error = DockerErrMsg
    /\ sh_started = <<>>
    /\ script_left = 1

-----------------------------------------------------------------------------
\* Backend selection (SpecShell)

\* the backend the constructor selected
SelectedBackend == IF enable_sandbox THEN "sandbox" ELSE "local"

\* the constructor was asked for isolation, the runtime was there and its
\* client was created without error
IsolationUsable ==
    /\ sh_ctor.enable_sandbox
    /\ sh_ctor.docker_available
    /\ sh_ctor.from_env_ok

\* C20: construction always yields a runner; it uses isolated execution
\* exactly when sandboxing was enabled, the container runtime was available
\* and its client was initialized without error, and local execution
\* otherwise; isolated execution is selected only while the client handle
\* exists; the selection never changes afterwards, whatever is saved in the
\* settings; and every command that was launched ran on the selected backend
\* only, with every accepted command launching nothing else.
C20_Backend ==
    /\ [](/\ enable_sandbox \in BOOLEAN
          /\ enable_sandbox <=> IsolationUsable
          /\ enable_sandbox => docker_client
          /\ \A i \in 1..Len(sh_started) : sh_started[i] = SelectedBackend
          /\ Len(sh_started) <= 1
          /\ (ShellCalled /\ is_command_allowed(sh_command))
                => /\ sh_child \in Children
                   /\ ~enable_sandbox => sh_started = <<"local">>
                   /\ (enable_sandbox /\ sh_child.fault \in {"none", "run", "decode"})
                         => sh_started = <<"sandbox">>)
    /\ [][/\ enable_sandbox' = enable_sandbox
          /\ docker_client' = docker_client]_vars

\* the constructor was asked for isolation with the runtime there, creating
\* the client failed, the sandbox setting was saved as enabled afterwards,
\* and an accepted command has run as a local child
C20_Witness ==
    /\ sh_ctor.enable_sandbox
    /\ sh_ctor.docker_available
    /\ ~sh_ctor.from_env_ok
    /\ settings_sandbox
    /\ ~docker_client
    /\ ShellCalled
    /\ sh_started = <<"local">>
    /\ sh_child \in LocalChildren

-----------------------------------------------------------------------------
\* One run at a time (SpecOrch)

\* the step begins a run of run_task: the coroutine count grows, the
\* arguments change, or the request log restarts with a planning request
RunBegins ==
    \/ in_flight' > in_flight
    \/ <<task, yolo_mode>>' # <<task, yolo_mode>>
    \/ Len(requests') = 1 /\ requests' # requests

\* C21: at most one run_task is in flight on the orchestrator, and it is the
\* one the running task thread carries; a request made while the task thread
\* is running begins no run and leaves the orchestrator as it is, and a run
\* begins only when no thread is running and none is in flight.
C21_SingleRun ==
    /\ [](/\ in_flight \in {0, 1}
          /\ in_flight = 1 <=> pc \in {"loop", "stopped"}
          /\ in_flight = 1 => task_thread = "running")
    /\ [][/\ RunBegins => /\ task_thread # "running"
                          /\ in_flight = 0
                          /\ task_thread' = "running"
          /\ task_thread = "running" =>
                /\ ~RunBegins
                /\ in_flight' <= in_flight]_vars

\* a second run is in flight in its task thread, one step recorded, after the
\* first run's thread has finished and left its entry in the history
C21_Witness ==
    /\ in_flight = 1
    /\ task_thread = "running"
    /\ pc = "loop"
    /\ Len(task_history) = 1
    /\ Len(results.steps) = 1

-----------------------------------------------------------------------------
\* The plan during execute_plan (SpecOrch)

StepStatuses == {"pending", "in_progress", "completed", "failed", "unknown"}

\* execute_plan is running, or has returned to run_task
PlanExecuting == pc \in {"loop", "stopped"}

\* two plans with the same steps in the same order, statuses aside
SameSteps(p, q) ==
    /\ Len(p) = Len(q)
    /\ \A k \in 1..Len(p) :
          /\ p[k].description = q[k].description
          /\ p[k].subtasks = q[k].subtasks

\* C24: while execute_plan runs, a step of it keeps the steps of the plan,
\* their order, descriptions and sub-tasks, and changes at most the status
\* of the step it has just executed and recorded; while it runs and after it
\* has returned, every step with a record in results.steps has that record's
\* status, completed or failed, and every step without one is pending; and
\* every status is always one of the five values.
C24_PlanFrame ==
    /\ [](/\ \A k \in 1..Len(current_plan) : current_plan[k].status \in StepStatuses
          /\ (PlanExecuting \/ pc = "returned") =>
                /\ Len(results.steps) <= Len(current_plan)
                /\ \A k \in 1..Len(current_plan) :
                      IF k <= Len(results.steps)
                      THEN /\ current_plan[k].status = results.steps[k].status
                           /\ current_plan[k].status \in {"completed", "failed"}
                      ELSE current_plan[k].status = "pending")
    /\ [][PlanExecuting =>
            /\ SameSteps(current_plan, current_plan')
            /\ \A k \in 1..Len(current_plan) :
                  current_plan'[k].status # current_plan[k].status =>
                      /\ k = step_i + 1
                      /\ Len(results'.steps) = k
                      /\ results'.steps[k].step_num = k]_vars

\* execute_plan is between the two steps of a plan: the first is completed
\* as its record says, the second is still pending
C24_Witness ==
    /\ pc = "loop"
    /\ Len(current_plan) = 2
    /\ Len(results.steps) = 1
    /\ current_plan[1].status = "completed"
    /\ results.steps[1].status = "completed"
    /\ current_plan[2].status = "pending"

-----------------------------------------------------------------------------
\* The simulated dispatch never fails (SpecOrch)

\* C25: every tool execution result recorded has success = TRUE; no step
\* record and no plan step has the status failed; the early stop is never
\* taken; and whenever execute_plan has returned, in YOLO mode or not, it
\* has returned one record per step of the plan, in order, with the overall
\* status completed.
C25_NeverFails ==
    /\ \A k \in 1..Len(results.steps) :
          /\ \A j \in 1..Len(results.steps[k].result.tool_executions) :
                results.steps[k].result.tool_executions[j].success = TRUE
          /\ results.steps[k].status # "failed"
          /\ results.steps[k].result.status = "completed"
    /\ \A k \in 1..Len(current_plan) : current_plan[k].status # "failed"
    /\ pc # "stopped"
    /\ results.overall_status # "failed"
    /\ pc = "returned" =>
          /\ Len(results.steps) = Len(current_plan)
          /\ \A k \in 1..Len(results.steps) : results.steps[k].step_num = k
          /\ results.overall_status = "completed"

\* execute_plan has returned outside YOLO mode from a plan of two steps whose
\* steps each dispatched tools: two records, overall status completed
C25_Witness ==
    /\ pc = "returned"
    /\ ~yolo_mode
    /\ Len(current_plan) = 2
    /\ Len(results.steps) = 2
    /\ \A k \in 1..2 : results.steps[k].result.tool_executions # <<>>
    /\ results.overall_status = "completed"

-----------------------------------------------------------------------------
\* Failures of the completion service (SpecOrch)

\* the planning request of the current run got the error payload
PlanningFailed == requests # <<>> /\ requests[1].answer = "error"

\* the request for step k of the current run got the error payload
StepFailed(k) ==
    \E r \in 1..Len(requests) :
        /\ requests[r].kind = "execution"
        /\ requests[r].step_num = k
        /\ requests[r].answer = "error"

\* C26: when the planning request gets the error payload, the plan is
\* empty, no step is requested, run_task does not raise, and it returns zero
\* step records with the overall status completed; when the request of a
\* step gets the error payload, the step is recorded with no tool execution
\* and the status completed, nothing is dispatched for it, the run is not
\* stopped, and the loop goes on to the next step.
C26_FailureNotFatal ==
    /\ PlanningFailed =>
          /\ current_plan = <<>>
          /\ Len(requests) = 1
          /\ pc \in {"loop", "returned"}
          /\ results.steps = <<>>
          /\ pc = "loop" => LoopDone(step_i, current_plan)
          /\ pc = "returned" => results.overall_status = "completed"
    /\ \A k \in 1..Len(current_plan) :
          StepFailed(k) =>
              /\ Len(results.steps) >= k
              /\ results.steps[k].result.execution_text = <<>>
              /\ results.steps[k].result.tool_executions = <<>>
              /\ results.steps[k].status = "completed"
              /\ current_plan[k].status = "completed"
              /\ \A d \in 1..Len(dispatched) : dispatched[d].step_num # k
              /\ pc \in {"loop", "returned", "raised"}
              /\ (pc = "loop" /\ Len(results.steps) = k) => step_i = k
              /\ pc = "returned" => Len(results.steps) = Len(current_plan)

\* a first run whose planning request failed has returned an empty plan and
\* no step record with the overall status completed; the run after it has
\* returned two records, the first of a step whose request failed, completed
\* without tools, the second of a step that dispatched tools
C26_Witness ==
    /\ pc = "returned"
    /\ Len(task_history) = 2
    /\ task_history[1].plan = <<>>
    /\ task_history[1].execution.steps = <<>>
    /\ task_history[1].execution.overall_status = "completed"
    /\ StepFailed(1)
    /\ ~StepFailed(2)
    /\ Len(results.steps) = 2
    /\ results.steps[1].result.tool_executions = <<>>
    /\ results.steps[1].status = "completed"
    /\ results.steps[2].result.tool_executions # <<>>

-----------------------------------------------------------------------------
\* Failures of the file actions (SpecFiles)

\* what the path of the call made by this step names before the call
Missing(path) == TargetOf(path) \notin (DOMAIN fs_files) \cup fs_dirs

IsFile(path) == TargetOf(path) \in DOMAIN fs_files

IsDirectory(path) == TargetOf(path) \in fs_dirs

\* the call made by this step has to fail: its path does not pass the
\* working-directory test, its action is not known, what it reads, deletes or
\* lists is missing, it lists a file or deletes a directory, or the operating
\* system refuses its reading operation
HasToFail(request) ==
    \/ Escapes(path_join(working_dir, request.path), working_dir)
    \/ request.action \notin KnownActions
    \/ request.action \in {"read", "delete", "list"} /\ Missing(request.path)
    \/ request.action = "list" /\ IsFile(request.path)
    \/ request.action = "delete" /\ IsDirectory(request.path)
    \/ request.fault

\* C27: no call of manage_file raises; a call that has to fail, and any call
\* in which an operation of the filesystem raises, returns success = FALSE
\* with an error text; and a read or a list, failed or not, leaves every file
\* and every directory as it was.
C27_FailuresAreValues ==
    [][/\ fm_raised' = "none"
       /\ fm_result'.success \in BOOLEAN
       /\ HasToFail(fm_request') => fm_result'.success = FALSE
       /\ fm_result'.success = FALSE =>
             /\ "error" \in DOMAIN fm_result'
             /\ fm_result'.error # ""
             /\ fm_result'.path = fm_request'.path
       /\ fm_request'.action \in {"read", "list"} =>
             /\ fs_files' = fs_files
             /\ fs_dirs' = fs_dirs]_vars

\* a read of a file written before was refused by the operating system: the
\* call returned the error of the except clause and the file is as written
C27_Witness ==
    /\ fm_request.action = "read"
    /\ fm_request.fault
    /\ fm_raised = "none"
    /\ fm_result.success = FALSE
    /\ fm_result.error = StrOfExc
    /\ fm_result.action = "read"
    /\ TargetOf(fm_request.path) \in DOMAIN fs_files
    /\ fs_files[TargetOf(fm_request.path)] = <<"a">>

-----------------------------------------------------------------------------
\* Contents of the files written (SpecText)

\* the string a content argument supplies: the empty string when none is
\* supplied
Supplied(content) == IF content.none THEN <<>> ELSE content.text

\* what manage_file("read", p) returns in the present state for the path p
\* of the last call
ReadBack == manage_file("read", fm_request.path, NoContent, FALSE).value

\* the call made by this step is a successful write or append
Wrote(action) == fm_request'.action = action /\ fm_result'.success

\* this step is a successful append to the file the step before has
\* successfully written
AppendAfterWrite ==
    /\ fm_request.action = "write"
    /\ fm_result.success
    /\ Wrote("append")
    /\ fm_request'.path = fm_request.path

\* C28: for every path p inside the working directory, read(p) after a
\* successful write(p, c) returns exactly c; read(p) after write(p, a)
\* followed by append(p, b) returns a followed by b; a write or an append
\* with no content writes the empty string; and write and append create the
\* missing directories of p.
C28_WriteThenRead ==
    [][/\ Wrote("write") =>
             /\ ReadBack'.success
             /\ ReadBack'.content = Supplied(fm_request'.content)
       /\ AppendAfterWrite =>
             /\ ReadBack'.success
             /\ ReadBack'.content =
                   Supplied(fm_request.content) \o Supplied(fm_request'.content)
       /\ Wrote("write") /\ fm_request'.content.none =>
             fs_files'[TargetOf(fm_request'.path)] = <<>>
       /\ Wrote("append") /\ fm_request'.content.none =>
             fs_files'[TargetOf(fm_request'.path)] =
                 IF IsFile(fm_request'.path)
                 THEN fs_files[TargetOf(fm_request'.path)] ELSE <<>>
       /\ Wrote("write") \/ Wrote("append") =>
             Chain(ParentOf(TargetOf(fm_request'.path))) \subseteq fs_dirs']_vars

\* a carriage return was written to a file of a directory that was not
\* there, the directory is there now, and the read that followed returned a
\* line feed
C28_Witness ==
    /\ fm_request.action = "read"
    /\ fm_request.path = <<"n", "/", "g">>
    /\ TargetOf(fm_request.path) \in DOMAIN fs_files
    /\ fs_files[TargetOf(fm_request.path)] = <<"\r">>
    /\ ParentOf(TargetOf(fm_request.path)) \in fs_dirs
    /\ fm_result.success
    /\ fm_result.content = <<"\n">>

-----------------------------------------------------------------------------
\* The empty allow list (SpecShell)

\* the runner was constructed with an empty allow list
EmptyAllowList == sh_ctor.allowed = <<>>

\* C29: a runner configured with an empty allow list accepts every command
\* that has a token and in which no blocked pattern occurs, whatever its
\* first token is.
C29_EmptyAllowList ==
    EmptyAllowList /\ HasToken(chk_command) /\ ~SomeBlockedIn(chk_command)
        => chk_allowed

\* the runner constructed with an empty allow list holds the default allow
\* list and has refused "scp file host:", in which no blocked pattern occurs
C29_Witness ==
    /\ EmptyAllowList
    /\ allowed_commands = DefaultAllowed
    /\ chk_command = ScpFileHost
    /\ ~SomeBlockedIn(chk_command)
    /\ FirstToken(chk_command) = <<"s", "c", "p">>
    /\ ~chk_allowed

-----------------------------------------------------------------------------
\* The step-result map after a run (SpecOrch)

\* C30: once execute_plan has returned with k steps executed, the step-result
\* map holds entries for the ordinals 1..k and no other, each the result
\* recorded for that step in this run.
C30_ResultMap ==
    PlanReturned =>
        /\ DOMAIN execution_results = 1..Len(results.steps)
        /\ \A k \in 1..Len(results.steps) :
              execution_results[k] = results.steps[k].result

\* the second run on the orchestrator executed one step and returned; the
\* map still holds the entry of ordinal 2 from the first run
C30_Witness ==
    /\ PlanReturned
    /\ Len(task_history) = 2
    /\ Len(task_history[1].execution.steps) = 2
    /\ Len(results.steps) = 1
    /\ execution_results[1] = results.steps[1].result
    /\ 2 \in DOMAIN execution_results
    /\ execution_results[2] = task_history[1].execution.steps[2].result

=============================================================================
